---- MODULE Spec2Model ----
(***************************************************************************)
(* Verification model of analyze-git-projects.                             *)
(*                                                                         *)
(* Four state machines share this module, each with its own specification: *)
(*   SpecCli    - cli_main of both command-line entry points               *)
(*   SpecAgent  - GitHubAgent.run_sync / run_async / _run_async            *)
(*   SpecIngest - GitIngestAnalyzer.analyze_repository (both variants)     *)
(*   SpecMcp    - GitHubMCAnalyzer.analyze_repository                      *)
(*                                                                         *)
(* Conventions.  A Python string whose characters matter (a repository     *)
(* URL) is a sequence of one-character strings.  Optional[T] is a sequence *)
(* of length at most one: None is <<>> and a value x is <<x>>.  A message  *)
(* built with an f-string is the sequence of its parts.                    *)
(***************************************************************************)
EXTENDS Integers, Sequences, FiniteSets, TLC

\* ------------------------------------------------------------------------
\* Bounds of the model
\* ------------------------------------------------------------------------
MaxUrls == 2        \* longest repo_urls list given on the command line

MaxRuns == 3        \* runs started on one GitHubAgent

MaxSteps == 2       \* max_steps, the step budget given to the agent

MaxReloads == 2     \* update_config calls made on one GitHubAgent

MaxUrlLen == 8      \* longest string given to RepositoryInfo.from_url

MaxSummaryLen == 3  \* longest results_list given to display_summary

MaxThreadScopes == 1 \* context scopes one thread has open at the same time

MaxMessages == 2    \* log calls made by the threads together

MaxLines == 3       \* lines of an analysis text given to the free-text parser

MaxRespLen == 4     \* longest response text of the documentation agent, in tokens

MaxDepth == 2       \* context scopes open at the same time

MaxLoggers == 1     \* StructuredLogger objects constructed after import

\* ------------------------------------------------------------------------
\* Optional values and small helpers
\* ------------------------------------------------------------------------
None == <<>>

Some(x) == <<x>>

Last(s) == s[Len(s)]

SeqsUpTo(S, n) == UNION {[1..k -> S] : k \in 0..n}

\* ------------------------------------------------------------------------
\* Repository URLs and RepositoryInfo.from_url
\* ------------------------------------------------------------------------
\* url.rstrip('/'): drop every trailing '/'
RECURSIVE RStripSlash(_)
RStripSlash(s) ==
    IF Len(s) > 0 /\ s[Len(s)] = "/"
    THEN RStripSlash(SubSeq(s, 1, Len(s) - 1))
    ELSE s

\* s.split('/'): the segments between the separators; never empty,
\* ''.split('/') is ['']
RECURSIVE SplitSlash(_)
SplitSlash(s) ==
    IF \A i \in 1..Len(s) : s[i] # "/"
    THEN <<s>>
    ELSE LET i == CHOOSE k \in 1..Len(s) :
                      s[k] = "/" /\ \A j \in 1..(k - 1) : s[j] # "/"
         IN  <<SubSeq(s, 1, i - 1)>> \o SplitSlash(SubSeq(s, i + 1, Len(s)))

\* RepositoryInfo.from_url(url)
from_url(url) ==
    LET parts == SplitSlash(RStripSlash(url))
    IN  [url   |-> url,
         name  |-> Last(parts),
         owner |-> IF Len(parts) >= 2 THEN parts[Len(parts) - 1]
                   ELSE <<"u", "n", "k", "n", "o", "w", "n">>]

\* The repository URLs the operator may pass: two repositories of the same
\* name under different owners, one URL with a trailing slash, and the empty
\* string (argparse accepts '' as a positional argument).
UrlOR == <<"o", "/", "r">>

UrlPR == <<"p", "/", "r">>

UrlQSlash == <<"o", "/", "q", "/">>

UrlEmpty == <<>>

Urls == {UrlOR, UrlPR, UrlQSlash, UrlEmpty}

\* Messages of the exceptions the environment can raise
ExcMsgs == {"boom"}


\* Literal strings of the source, as character sequences
StrUnknown == <<"u", "n", "k", "n", "o", "w", "n">>

StrUnknownCap == <<"U", "n", "k", "n", "o", "w", "n">>

\* ------------------------------------------------------------------------
\* Result records
\* ------------------------------------------------------------------------
\* SimpleProject(name, url, description, technologies, key_features, highlights)
SimpleProject(name, url, description, technologies, key_features, highlights) ==
    [name |-> name, url |-> url, description |-> description,
     technologies |-> technologies, key_features |-> key_features,
     highlights |-> highlights]

DescPlaceholder == <<"No description available">>

\* AnalysisResults.__init__ derives repo_info on these arguments:
\* if not self.repo_info and self.repo_url
DerivesRepoInfo(repo_url, repo_info) == repo_info = None /\ repo_url # <<>>

\* AnalysisResults(repo_url=..., repo_info=..., error=...): the field
\* defaults, then __init__ derives repo_info when none was supplied and
\* repo_url is non-empty
AnalysisResultsInit(repo_url, repo_info, error) ==
    [repo_url |-> repo_url,
     repo_info |-> IF DerivesRepoInfo(repo_url, repo_info)
                   THEN Some(from_url(repo_url)) ELSE repo_info,
     structure |-> None,
     files |-> None,
     error |-> error,
     tools_used |-> <<>>,
     technology_stack |-> None,
     project_complexity |-> None,
     code_quality |-> None,
     project_purpose |-> None,
     key_features |-> <<>>,
     architecture_type |-> None,
     dependencies |-> <<>>,
     development_practices |-> <<>>]

\* AnalysisResults(repo_url=..., error=...)
AnalysisResults(repo_url, error) == AnalysisResultsInit(repo_url, None, error)

\* Mutant of has_error: an empty message does not count as an error
has_error_Truthiness(r) == r.error # None /\ r.error # Some("")

has_error(r) == r.error # None

is_complete(r) ==
    /\ r.technology_stack # None
    /\ r.project_complexity # None
    /\ r.code_quality # None
    /\ ~has_error(r)


\* ========================================================================
\* State
\* ========================================================================
VARIABLES
    \* --- cli_main (both entry points) ---
    cli,              \* which entry point runs: "mcp" or "ingest"
    repo_urls,        \* args.repo_urls
    test_connection,  \* args.test_connection
    cli_pc,           \* position of cli_main
    url_idx,          \* index in repo_urls of the loop's current repo_url
    project,          \* the record bound to project / results in the loop body
    results_list,     \* projects_list / results_list
    appended_by,      \* per record of results_list: <<url index, "try" | "except">>
    disk,             \* files under output_dir: set of <<name, content>>
    exit_status,      \* None while running, Some(status) once the process ended
    summary_total,    \* Some(total) once display_summary printed the summary
    connection_tests, \* results of the test_connection() calls made, in order
    analyzed,         \* url indexes analyze_repository was called for, in order
    handled,          \* url indexes display_results / a save began for
    interrupted       \* Some(<<url index, step>>) once KeyboardInterrupt arrived

cliVars == <<cli, repo_urls, test_connection, cli_pc, url_idx, project,
             results_list, appended_by, disk, exit_status, summary_total,
             connection_tests, analyzed, handled, interrupted>>

VARIABLES
    \* --- GitHubAgent ---
    sessions,         \* self.client's open tool-server sessions (server names)
    agent_pc,         \* per run: "idle", "running", "finally", "returned", "raised"
    agent_kind,       \* per run: "sync" (run_sync) or "async" (run_async)
    agent_steps,      \* per run: steps the reasoning loop has taken
    agent_pending,    \* per run: what _run_async's try block ended with
    agent_used,       \* per run: the sessions the run opened or used
    runs_started      \* number of runs started so far

agentVars == <<sessions, agent_pc, agent_kind, agent_steps, agent_pending,
               agent_used, runs_started>>

VARIABLES
    \* --- GitIngestAnalyzer.analyze_repository ---
    ing_variant,      \* "free_text" (gitingest_analyzer) or "structured"
    ing_url,          \* the repo_url argument
    ing_pc,           \* position of analyze_repository
    results,          \* the AnalysisResults being filled
    tool_names,       \* names of the tools the server offers
    analysis_output,  \* output of the final analysis request
    ing_failures,     \* failures so far: <<step, message, results at the failure>>
    \* --- GitHubMCAnalyzer.analyze_repository ---
    mcp_url,          \* the repo_url argument
    mcp_pc,           \* position of analyze_repository
    mcp_results,      \* the SimpleProject bound to results
    mcp_data,         \* Some(analysis_result.data) once the model answered
    mcp_failed        \* Some(<<step, message>>) once a step raised

ingestVars == <<ing_variant, ing_url, ing_pc, results, tool_names,
                analysis_output, ing_failures>>

mcpVars == <<mcp_url, mcp_pc, mcp_results, mcp_data, mcp_failed>>

VARIABLES
    \* --- GitHubAgent: construction and reconfiguration ---
    gh_pc,        \* "new", "ready", "failed", or the position in update_config
    gh_env,       \* OPENROUTER_API_KEY and OPENAI_API_KEY in the environment
    gh_args,      \* the constructor's arguments
    gh,           \* the attributes of self
    gh_clients,   \* every MCPClient created so far: its file and open sessions
    gh_update,    \* update_config in progress: its argument and the state before
    gh_last,      \* the last call that completed, with its outcome
    gh_error,     \* the exception the last call raised, if it raised
    gh_reloads    \* number of update_config calls so far

ghVars == <<gh_pc, gh_env, gh_args, gh, gh_clients, gh_update, gh_last,
            gh_error, gh_reloads>>

VARIABLES
    \* --- one AnalysisResults object and the assignments made to it ---
    rec_pc,       \* "new" before construction, "live" after
    rec,          \* the fields of the object
    rec_fresh,    \* no field has been assigned since construction
    rec_derived   \* number of times repo_info was derived from repo_url

recVars == <<rec_pc, rec, rec_fresh, rec_derived>>

VARIABLES
    \* --- one call of RepositoryInfo.from_url ---
    fu_pc,        \* "call" before the call, "returned" after
    fu_url,       \* the argument
    fu_result     \* the RepositoryInfo returned

urlVars == <<fu_pc, fu_url, fu_result>>

VARIABLES
    \* --- one call of GitHubMCPServerFactory.create_from_config ---
    fac_pc,       \* "call" before the call, "built" after
    fac_config,   \* the GitHubMCPServerConfig
    fac_env,      \* the dictionary _build_env_vars returned
    fac_args      \* the args of the MCPServerStdio returned

facVars == <<fac_pc, fac_config, fac_env, fac_args>>

VARIABLES
    \* --- one call of ResultsDisplay.display_summary ---
    sum_pc,       \* "call", then "returned" or "raised"
    sum_list,     \* the results_list argument
    sum_out,      \* the panels printed, in order
    sum_error     \* the exception raised, if any

sumVars == <<sum_pc, sum_list, sum_out, sum_error>>

VARIABLES
    \* --- package logging: the logging registry and StructuredLogger objects
    lg_loggers,   \* logging.getLogger(name) for each name: level, handlers, propagate
    lg_handlers,  \* every handler object created: kind, file, level
    lg_configs,   \* every LoggingConfig object created
    lg_slogs,     \* every StructuredLogger object created: name, config
    lg_package,   \* _package_logger: a StructuredLogger object
    lg_op,        \* the last call made, with its arguments
    lg_emitted,   \* the destinations the last logging call wrote to, in order
    lg_pkg_mode,  \* level last given to the package logger, and by which call
    lg_lastcfg,   \* per name: the settings of its most recent configuration
    lg_error      \* the exception the last call raised, if any

logVars == <<lg_loggers, lg_handlers, lg_configs, lg_slogs, lg_package,
             lg_op, lg_emitted, lg_pkg_mode, lg_lastcfg, lg_error>>

VARIABLES
    \* --- StructuredLogger.context scopes of one logger, one thread ---
    cx_ctx,       \* self._context, the ambient context map
    cx_saved,     \* original_context of each open scope, outermost first
    cx_scopes,    \* the keywords each open scope was entered with
    cx_out,       \* the text of the last message handed to the logger
    cx_op,        \* the last step: enter, exit or log, with its arguments
    cx_exit       \* how the last scope was left: "normal" or "exception"

ctxVars == <<cx_ctx, cx_saved, cx_scopes, cx_out, cx_op, cx_exit>>

VARIABLES
    \* --- one call of DocumentationAnalyzer.analyze_repository ---
    doc_pc,       \* "call", then "returned" or "raised"
    doc_via,      \* "single", or "multiple" for analyze_multiple_repos
    doc_agent,    \* what agent.run_sync does: raises, or the text it returns
    doc_result,   \* the DocumentationAnalysis the caller receives, if any
    doc_error     \* the exception the caller receives, if any

docVars == <<doc_pc, doc_via, doc_agent, doc_result, doc_error>>

VARIABLES
    \* --- one call of GitIngestAnalyzer._parse_and_populate_analysis on a
    \*     text given line by line ---
    ps_pc,        \* "call", then "returned"
    ps_text,      \* analysis_text: its lines, each a label and a value
    ps_result     \* the nested models of results after the call

parseVars == <<ps_pc, ps_text, ps_result>>

VARIABLES
    \* --- several threads on one StructuredLogger ---
    th_ctx,       \* self._context, one attribute shared by the threads
    th_pc,        \* per thread: "idle", or "entering" between the read and
                  \* the write of context()
    th_orig,      \* per thread: original_context of each open context()
    th_scopes,    \* per thread: the keywords of each scope it is inside
    th_calls,     \* log calls made
    th_written,   \* records the handler has written
    th_op         \* the last step, with the thread and the message text

thrVars == <<th_ctx, th_pc, th_orig, th_scopes, th_calls, th_written, th_op>>

vars ==
    <<cliVars, agentVars, ingestVars, mcpVars,
      ghVars, recVars, urlVars, facVars,
      sumVars, logVars, ctxVars, docVars,
      parseVars, thrVars>>

\* What each state machine leaves alone
nonCliVars ==
    <<agentVars, ingestVars, mcpVars, ghVars,
      recVars, urlVars, facVars, sumVars,
      logVars, ctxVars, docVars, parseVars,
      thrVars>>

nonAgentVars ==
    <<cliVars, ingestVars, mcpVars, ghVars,
      recVars, urlVars, facVars, sumVars,
      logVars, ctxVars, docVars, parseVars,
      thrVars>>

nonIngestVars ==
    <<cliVars, agentVars, mcpVars, ghVars,
      recVars, urlVars, facVars, sumVars,
      logVars, ctxVars, docVars, parseVars,
      thrVars>>

nonMcpVars ==
    <<cliVars, agentVars, ingestVars, ghVars,
      recVars, urlVars, facVars, sumVars,
      logVars, ctxVars, docVars, parseVars,
      thrVars>>

nonGhVars ==
    <<cliVars, agentVars, ingestVars, mcpVars,
      recVars, urlVars, facVars, sumVars,
      logVars, ctxVars, docVars, parseVars,
      thrVars>>

nonUrlVars ==
    <<cliVars, agentVars, ingestVars, mcpVars,
      ghVars, recVars, facVars, sumVars,
      logVars, ctxVars, docVars, parseVars,
      thrVars>>

nonRecVars ==
    <<cliVars, agentVars, ingestVars, mcpVars,
      ghVars, urlVars, facVars, sumVars,
      logVars, ctxVars, docVars, parseVars,
      thrVars>>

nonFacVars ==
    <<cliVars, agentVars, ingestVars, mcpVars,
      ghVars, recVars, urlVars, sumVars,
      logVars, ctxVars, docVars, parseVars,
      thrVars>>

nonSumVars ==
    <<cliVars, agentVars, ingestVars, mcpVars,
      ghVars, recVars, urlVars, facVars,
      logVars, ctxVars, docVars, parseVars,
      thrVars>>

nonLogVars ==
    <<cliVars, agentVars, ingestVars, mcpVars,
      ghVars, recVars, urlVars, facVars,
      sumVars, ctxVars, docVars, parseVars,
      thrVars>>

nonCtxVars ==
    <<cliVars, agentVars, ingestVars, mcpVars,
      ghVars, recVars, urlVars, facVars,
      sumVars, logVars, docVars, parseVars,
      thrVars>>

nonDocVars ==
    <<cliVars, agentVars, ingestVars, mcpVars,
      ghVars, recVars, urlVars, facVars,
      sumVars, logVars, ctxVars, parseVars,
      thrVars>>

nonParseVars ==
    <<cliVars, agentVars, ingestVars, mcpVars,
      ghVars, recVars, urlVars, facVars,
      sumVars, logVars, ctxVars, docVars,
      thrVars>>

nonThrVars ==
    <<cliVars, agentVars, ingestVars, mcpVars,
      ghVars, recVars, urlVars, facVars,
      sumVars, logVars, ctxVars, docVars,
      parseVars>>

\* ========================================================================
\* cli_main
\* ========================================================================
\* nargs of the positional repo_urls argument
Nargs(c) == IF c = "mcp" THEN "*" ELSE "+"

\* SimpleProject defines no to_json: SimpleProject.to_json(project) raises
\* AttributeError
SimpleProjectHasToJson == FALSE

\* What analyze_repository may return to the CLI for url
AnalyzerReturns(c, url) ==
    IF c = "mcp"
    THEN {SimpleProject(from_url(url).name, Some(url), DescPlaceholder,
                        <<>>, <<>>, None),
          SimpleProject(from_url(url).name, Some(url), <<"desc">>,
                        <<"py">>, <<"feat">>, Some(<<"hl">>)),
          SimpleProject(<<>>, None, <<"desc">>, <<>>, <<>>, None)}
    ELSE {[AnalysisResults(url, None) EXCEPT
               !.technology_stack = Some("ts"),
               !.project_complexity = Some("pc"),
               !.code_quality = Some("cq")],
          AnalysisResults(url, Some(<<"boom">>))}

\* The record the per-repository except clause builds for exception e
ErrorRecord(c, url, e) ==
    IF c = "mcp"
    THEN SimpleProject(IF url # <<>> THEN Last(SplitSlash(url))
                       ELSE StrUnknownCap,
                       Some(url), <<"Analysis failed: ", e>>, <<>>, <<>>, None)
    ELSE AnalysisResults(url, Some(<<e>>))

\* sys.exit(status), and the process ending when cli_main returns
CliExit(status) ==
    /\ exit_status' = Some(status)
    /\ cli_pc' = "exited"

\* The for statement moves to the next repo_url, or the loop ends
CliNextUrl ==
    IF url_idx < Len(repo_urls)
    THEN /\ url_idx' = url_idx + 1
         /\ cli_pc' = "analyze"
    ELSE /\ url_idx' = url_idx
         /\ cli_pc' = "summary"

\* except Exception as e (per repository): append the synthetic error record
\* and go on with the next repo_url
CliExceptPerRepo(e) ==
    /\ results_list' = Append(results_list,
                              ErrorRecord(cli, repo_urls[url_idx], e))
    /\ appended_by' = Append(appended_by, <<url_idx, "except">>)
    /\ project' = None
    /\ CliNextUrl
    /\ UNCHANGED <<exit_status, interrupted>>

\* Mutant of CliExceptKeyboardInterrupt: the per-repository clause catches
\* BaseException, so an interrupt inside the loop body becomes an error record
CliExceptKeyboardInterrupt_Swallowed(step) ==
    IF step \in {"analyze", "display", "save"}
    THEN /\ interrupted' = Some(<<url_idx, step>>)
         /\ results_list' = Append(results_list,
                ErrorRecord(cli, repo_urls[url_idx], "KeyboardInterrupt"))
         /\ appended_by' = Append(appended_by, <<url_idx, "except">>)
         /\ project' = None
         /\ CliNextUrl
         /\ UNCHANGED exit_status
    ELSE /\ interrupted' = Some(<<url_idx, step>>)
         /\ CliExit(1)
         /\ UNCHANGED <<url_idx, project, results_list, appended_by>>

\* except KeyboardInterrupt (around the whole body of cli_main): sys.exit(1).
\* KeyboardInterrupt is no Exception, so the per-repository clause lets it pass.
CliExceptKeyboardInterrupt(step) ==
    /\ interrupted' = Some(<<url_idx, step>>)
    /\ CliExit(1)
    /\ UNCHANGED <<url_idx, project, results_list, appended_by>>

\* except Exception as e (around the whole body of cli_main): sys.exit(1)
CliExceptUnexpected ==
    /\ CliExit(1)
    /\ UNCHANGED <<url_idx, project, results_list, appended_by, interrupted>>

CliInit ==
    /\ cli \in {"mcp", "ingest"}
    /\ repo_urls \in SeqsUpTo(Urls, MaxUrls)
    /\ test_connection \in BOOLEAN
    /\ cli_pc = "parse_args"
    /\ url_idx = 0
    /\ project = None
    /\ results_list = <<>>
    /\ appended_by = <<>>
    /\ disk = {}
    /\ exit_status = None
    /\ summary_total = None
    /\ connection_tests = <<>>
    /\ analyzed = <<>>
    /\ handled = <<>>
    /\ interrupted = None

\* parse_args(): argparse ends the process with status 2 when a nargs="+"
\* positional is given no value
CliParseArgs ==
    /\ cli_pc = "parse_args"
    /\ UNCHANGED nonCliVars
    /\ IF Nargs(cli) = "+" /\ repo_urls = <<>>
       THEN CliExit(2)
       ELSE /\ cli_pc' = "construct"
            /\ exit_status' = exit_status
    /\ UNCHANGED <<cli, repo_urls, test_connection, url_idx, project,
                   results_list, appended_by, disk, summary_total,
                   connection_tests, analyzed, handled, interrupted>>

\* analyzer = GitHubMCPAnalyzer(...) / GitIngestAnalyzer(...): an exception
\* (missing token, server set-up) reaches the outer except Exception
CliConstruct ==
    /\ cli_pc = "construct"
    /\ UNCHANGED nonCliVars
    /\ \E out \in {"ok", "raise", "interrupt"} :
          CASE out = "ok" ->
                 /\ cli_pc' = "test"
                 /\ UNCHANGED <<url_idx, project, results_list, appended_by,
                                exit_status, interrupted>>
            [] out = "raise" -> CliExceptUnexpected
            [] out = "interrupt" -> CliExceptKeyboardInterrupt("construct")
    /\ UNCHANGED <<cli, repo_urls, test_connection, disk, summary_total,
                   connection_tests, analyzed, handled>>

\* Mutant of CliAfterTest: a failed connection test does not abort the run
CliAfterTest_NoAbort(connection_ok) ==
    IF test_connection
    THEN CliExit(IF connection_ok THEN 0 ELSE 1) /\ url_idx' = url_idx
    ELSE IF repo_urls = <<>>
    THEN CliExit(1) /\ url_idx' = url_idx
    ELSE /\ cli_pc' = "analyze"
         /\ url_idx' = 1
         /\ exit_status' = exit_status

\* The branches on connection_ok, up to the start of the loop:
\*   if args.test_connection: sys.exit(0 if connection_ok else 1)
\*   if not connection_ok: sys.exit(1)
\*   if not args.repo_urls: sys.exit(1)          (mcp; never true for ingest)
CliAfterTest(connection_ok) ==
    IF test_connection
    THEN CliExit(IF connection_ok THEN 0 ELSE 1) /\ url_idx' = url_idx
    ELSE IF ~connection_ok
    THEN CliExit(1) /\ url_idx' = url_idx
    ELSE IF repo_urls = <<>>
    THEN CliExit(1) /\ url_idx' = url_idx
    ELSE /\ cli_pc' = "analyze"
         /\ url_idx' = 1
         /\ exit_status' = exit_status

\* connection_ok = await analyzer.test_connection() and what follows it;
\* test_connection() itself catches Exception and returns False
CliTestConnection ==
    /\ cli_pc = "test"
    /\ UNCHANGED nonCliVars
    /\ \E out \in {"true", "false", "interrupt"} :
          IF out = "interrupt"
          THEN /\ CliExceptKeyboardInterrupt("test")
               /\ UNCHANGED connection_tests
          ELSE /\ connection_tests' = Append(connection_tests, out = "true")
               /\ CliAfterTest(out = "true")
               /\ UNCHANGED <<project, results_list, appended_by,
                              interrupted>>
    /\ UNCHANGED <<cli, repo_urls, test_connection, disk, summary_total,
                   analyzed, handled>>

\* project = await analyzer.analyze_repository(repo_url);
\* projects_list.append(project)
CliAnalyze ==
    /\ cli_pc = "analyze"
    /\ UNCHANGED nonCliVars
    /\ analyzed' = Append(analyzed, url_idx)
    /\ \/ \E r \in AnalyzerReturns(cli, repo_urls[url_idx]) :
             /\ project' = Some(r)
             /\ results_list' = Append(results_list, r)
             /\ appended_by' = Append(appended_by, <<url_idx, "try">>)
             /\ cli_pc' = "display"
             /\ UNCHANGED <<url_idx, exit_status, interrupted>>
       \/ \E e \in ExcMsgs : CliExceptPerRepo(e)
       \/ CliExceptKeyboardInterrupt("analyze")
    /\ UNCHANGED <<cli, repo_urls, test_connection, disk, summary_total,
                   connection_tests, handled>>

\* ResultsDisplay.display_results(project)
CliDisplay ==
    /\ cli_pc = "display"
    /\ UNCHANGED nonCliVars
    /\ handled' = Append(handled, url_idx)
    /\ \/ /\ cli_pc' = "save"
          /\ UNCHANGED <<url_idx, project, results_list, appended_by,
                         exit_status, interrupted>>
       \/ \E e \in ExcMsgs : CliExceptPerRepo(e)
       \/ CliExceptKeyboardInterrupt("display")
    /\ UNCHANGED <<cli, repo_urls, test_connection, disk, summary_total,
                   connection_tests, analyzed>>

\* open(output_file, 'w') creates or truncates the file
DiskOpen(name) == {d \in disk : d[1] # name} \cup {<<name, None>>}

\* the file holds the JSON of record r
DiskWrite(name, r) == {d \in disk : d[1] # name} \cup {<<name, Some(r)>>}

\* <name> of analysis_<name>.json for record r
\*   mcp:    project.name or "unknown"
\*   ingest: results.repo_info.name
OutputName(c, r) ==
    IF c = "mcp"
    THEN (IF r.name # <<>> THEN r.name ELSE StrUnknown)
    ELSE r.repo_info[1].name

\* The save step of the loop body.
\*   mcp:    open the file, then write SimpleProject.to_json(project)
\*   ingest: ResultsDisplay.save_results_to_file(results, output_file);
\*           reading results.repo_info.name raises when repo_info is None
CliSave ==
    /\ cli_pc = "save"
    /\ UNCHANGED nonCliVars
    /\ LET r == project[1]
       IN  \E io \in {"ok", "open_fails", "write_fails", "interrupt"} :
             IF cli = "ingest" /\ r.repo_info = None
             THEN /\ CliExceptPerRepo("no attribute name")
                  /\ UNCHANGED disk
             ELSE IF io = "interrupt"
             THEN /\ CliExceptKeyboardInterrupt("save")
                  /\ UNCHANGED disk
             ELSE IF io = "open_fails"
             THEN /\ \E e \in ExcMsgs : CliExceptPerRepo(e)
                  /\ UNCHANGED disk
             ELSE IF cli = "mcp" /\ ~SimpleProjectHasToJson
             THEN /\ disk' = DiskOpen(OutputName(cli, r))
                  /\ CliExceptPerRepo("no attribute to_json")
             ELSE IF io = "write_fails"
             THEN /\ disk' = DiskOpen(OutputName(cli, r))
                  /\ \E e \in ExcMsgs : CliExceptPerRepo(e)
             ELSE /\ disk' = DiskWrite(OutputName(cli, r), r)
                  /\ CliNextUrl
                  /\ UNCHANGED <<project, results_list, appended_by,
                                 exit_status, interrupted>>
    /\ UNCHANGED <<cli, repo_urls, test_connection, summary_total,
                   connection_tests, analyzed, handled>>

\* if len(projects_list) > 1: display_summary(projects_list); then cli_main
\* returns and the process ends with status 0
CliSummary ==
    /\ cli_pc = "summary"
    /\ UNCHANGED nonCliVars
    /\ IF Len(results_list) > 1
       THEN \E out \in {"ok", "raise", "interrupt"} :
              CASE out = "ok" ->
                     /\ summary_total' = Some(Len(results_list))
                     /\ CliExit(0)
                     /\ UNCHANGED <<url_idx, project, results_list,
                                    appended_by, interrupted>>
                [] out = "raise" ->
                     /\ CliExceptUnexpected
                     /\ UNCHANGED summary_total
                [] out = "interrupt" ->
                     /\ CliExceptKeyboardInterrupt("summary")
                     /\ UNCHANGED summary_total
       ELSE /\ CliExit(0)
            /\ UNCHANGED <<url_idx, project, results_list, appended_by,
                           interrupted, summary_total>>
    /\ UNCHANGED <<cli, repo_urls, test_connection, disk, connection_tests,
                   analyzed, handled>>

CliNext ==
    \/ CliParseArgs
    \/ CliConstruct
    \/ CliTestConnection
    \/ CliAnalyze
    \/ CliDisplay
    \/ CliSave
    \/ CliSummary



\* ========================================================================
\* GitHubAgent: run_sync, run_async, _run_async
\* ========================================================================
\* The coroutines that may be running _run_async on one agent
Runs == 1..2

\* The tool servers the agent's configuration file names
Servers == {"github", "gitingest"}

AgentActive(t) == agent_pc[t] \in {"running", "finally"}

AgentInit ==
    /\ sessions = {}
    /\ agent_pc = [t \in Runs |-> "idle"]
    /\ agent_kind = [t \in Runs |-> "sync"]
    /\ agent_steps = [t \in Runs |-> 0]
    /\ agent_pending = [t \in Runs |-> None]
    /\ agent_used = [t \in Runs |-> {}]
    /\ runs_started = 0

\* run_sync(user_prompt) / run_async(user_prompt) enter _run_async.
\* run_sync drives its own event loop with asyncio.run and blocks its caller,
\* so it never overlaps another run; run_async calls may overlap each other.
AgentStartRun(t, kind) ==
    /\ UNCHANGED nonAgentVars
    /\ ~AgentActive(t)
    /\ runs_started < MaxRuns
    /\ \A u \in Runs : AgentActive(u) => (kind = "async" /\ agent_kind[u] = "async")
    /\ runs_started' = runs_started + 1
    /\ agent_pc' = [agent_pc EXCEPT ![t] = "running"]
    /\ agent_kind' = [agent_kind EXCEPT ![t] = kind]
    /\ agent_steps' = [agent_steps EXCEPT ![t] = 0]
    /\ agent_pending' = [agent_pending EXCEPT ![t] = None]
    /\ agent_used' = [agent_used EXCEPT ![t] = {}]
    /\ UNCHANGED sessions

\* One step of await self.agent.run(user_prompt): the reasoning loop, bounded
\* by max_steps, connects to or calls a tool server of the client
AgentStep(t, srv) ==
    /\ UNCHANGED nonAgentVars
    /\ agent_pc[t] = "running"
    /\ agent_steps[t] < MaxSteps
    /\ agent_steps' = [agent_steps EXCEPT ![t] = @ + 1]
    /\ sessions' = sessions \cup {srv}
    /\ agent_used' = [agent_used EXCEPT ![t] = @ \cup {srv}]
    /\ UNCHANGED <<agent_pc, agent_kind, agent_pending, runs_started>>

\* self.agent.run returns its result: the try block ends with return result
AgentRunReturns(t) ==
    /\ UNCHANGED nonAgentVars
    /\ agent_pc[t] = "running"
    /\ agent_pc' = [agent_pc EXCEPT ![t] = "finally"]
    /\ agent_pending' = [agent_pending EXCEPT ![t] = Some("result")]
    /\ UNCHANGED <<sessions, agent_kind, agent_steps, agent_used,
                   runs_started>>

\* self.agent.run raises: except Exception logs and re-raises
AgentRunRaises(t, e) ==
    /\ UNCHANGED nonAgentVars
    /\ agent_pc[t] = "running"
    /\ agent_pc' = [agent_pc EXCEPT ![t] = "finally"]
    /\ agent_pending' = [agent_pending EXCEPT ![t] = Some(<<"raise", e>>)]
    /\ UNCHANGED <<sessions, agent_kind, agent_steps, agent_used,
                   runs_started>>

\* Mutant of AgentFinally: the sessions are closed on the success path only
AgentFinally_CloseOnSuccessOnly(t) ==
    /\ UNCHANGED nonAgentVars
    /\ agent_pc[t] = "finally"
    /\ sessions' = IF agent_pending[t] = Some("result") THEN {} ELSE sessions
    /\ agent_pc' = [agent_pc EXCEPT ![t] =
           IF agent_pending[t] = Some("result") THEN "returned" ELSE "raised"]
    /\ UNCHANGED <<agent_kind, agent_steps, agent_pending, agent_used,
                   runs_started>>

\* finally: await self.client.close_all_sessions(); then the pending return
\* or exception leaves _run_async (and run_sync / run_async with it)
AgentFinally(t) ==
    /\ UNCHANGED nonAgentVars
    /\ agent_pc[t] = "finally"
    /\ sessions' = {}
    /\ agent_pc' = [agent_pc EXCEPT ![t] =
           IF agent_pending[t] = Some("result") THEN "returned" ELSE "raised"]
    /\ UNCHANGED <<agent_kind, agent_steps, agent_pending, agent_used,
                   runs_started>>

AgentNext ==
    \/ \E t \in Runs, kind \in {"sync", "async"} : AgentStartRun(t, kind)
    \/ \E t \in Runs, srv \in Servers : AgentStep(t, srv)
    \/ \E t \in Runs : AgentRunReturns(t)
    \/ \E t \in Runs, e \in ExcMsgs : AgentRunRaises(t, e)
    \/ \E t \in Runs : AgentFinally(t)

\* ========================================================================
\* GitHubAgent: __init__, update_config, get_config_file, close
\* ========================================================================
\* The configuration files a caller may name; the last one does not exist
ConfigFiles == {"github_mcp.json", "other.json", "missing.json"}

\* MCPClient.from_config_file(config_file) raises on this file
ConfigFileUnreadable(f) == f = "missing.json"

\* What os.getenv returns: nothing, an empty value, or a key
EnvValues == {None, Some(""), Some("sk-key")}

\* Truth value of os.getenv's result in a condition
Truthy(v) == v # None /\ v[1] # ""

\* system_prompt or """You are a GitHub repository analysis expert ..."""
DefaultSystemPrompt == "You are a GitHub repository analysis expert."

OpenRouterBaseUrl == "https://openrouter.ai/api/v1"

OpenRouterDefaultModel == "google/gemini-2.5-flash-lite"

OpenAIDefaultModel == "gpt-4o-mini"

NoApiKeyMessage ==
    "No API key found. Please set OPENROUTER_API_KEY or OPENAI_API_KEY environment variable."

\* ChatOpenAI(model=..., base_url=..., api_key=...); the temperature and
\* max_tokens keywords are passed through and do not affect the choice
ChatOpenAI(model, base_url, api_key) ==
    [model |-> model, base_url |-> base_url, api_key |-> api_key]

\* MCPAgent(llm=..., client=..., max_steps=..., system_prompt=...)
MCPAgent(llm, client, max_steps, system_prompt) ==
    [llm |-> llm, client |-> client, max_steps |-> max_steps,
     system_prompt |-> system_prompt]

\* MCPClient.from_config_file(f): a new client with no session open
NewClient(f) == [config |-> f, sessions |-> {}]

\* The provider branch of __init__: Some(llm), or None when it raises
\* ValueError
SelectLLM(env, args) ==
    IF Truthy(env.openrouter) /\ ~args.force_openai
    THEN Some(ChatOpenAI(IF args.model_name # None /\ args.model_name[1] # ""
                         THEN args.model_name[1] ELSE OpenRouterDefaultModel,
                         Some(OpenRouterBaseUrl), env.openrouter[1]))
    ELSE IF Truthy(env.openai)
    THEN Some(ChatOpenAI(IF args.model_name # None /\ args.model_name[1] # ""
                         THEN args.model_name[1] ELSE OpenAIDefaultModel,
                         None, env.openai[1]))
    ELSE None

\* get_config_file()
get_config_file == gh.config_file

GhInit ==
    /\ gh_pc = "new"
    /\ gh_env \in [openrouter : EnvValues, openai : EnvValues]
    /\ gh_args \in [system_prompt : {None, Some("custom prompt")},
                    model_name : {None, Some("my/model")},
                    config_file : ConfigFiles,
                    max_steps : {30, 5},
                    force_openai : BOOLEAN]
    /\ gh = None
    /\ gh_clients = <<>>
    /\ gh_update = None
    /\ gh_last = None
    /\ gh_error = None
    /\ gh_reloads = 0

\* GitHubAgent.__init__
GhConstruct ==
    /\ UNCHANGED nonGhVars
    /\ gh_pc = "new"
    /\ IF ConfigFileUnreadable(gh_args.config_file)
       THEN /\ gh_pc' = "failed"
            /\ gh_error' = Some("FileNotFoundError")
            /\ UNCHANGED <<gh, gh_clients>>
       ELSE LET llm == SelectLLM(gh_env, gh_args)
                cid == Len(gh_clients) + 1
                prompt == IF gh_args.system_prompt # None
                          THEN gh_args.system_prompt[1]
                          ELSE DefaultSystemPrompt
            IN  /\ gh_clients' = Append(gh_clients,
                                        NewClient(gh_args.config_file))
                /\ IF llm = None
                   THEN /\ gh_pc' = "failed"
                        /\ gh_error' = Some(NoApiKeyMessage)
                        /\ UNCHANGED gh
                   ELSE /\ gh_pc' = "ready"
                        /\ gh_error' = None
                        /\ gh' = [system_prompt |-> prompt,
                                  config_file |-> gh_args.config_file,
                                  max_steps |-> gh_args.max_steps,
                                  client |-> cid,
                                  llm |-> llm[1],
                                  agent |-> MCPAgent(llm[1], cid,
                                                gh_args.max_steps, prompt)]
    /\ gh_last' = Some([op |-> "__init__", ok |-> gh_pc' = "ready"])
    /\ UNCHANGED <<gh_env, gh_args, gh_update, gh_reloads>>

\* A tool-server session is opened on the client the reasoning loop is bound
\* to, by a run of the loop
GhOpenSession(srv) ==
    /\ UNCHANGED nonGhVars
    /\ gh_pc = "ready"
    /\ srv \notin gh_clients[gh.agent.client].sessions
    /\ gh_clients' = [gh_clients EXCEPT ![gh.agent.client].sessions =
                          @ \cup {srv}]
    /\ UNCHANGED <<gh_pc, gh_env, gh_args, gh, gh_update, gh_last, gh_error,
                   gh_reloads>>

\* close(): asyncio.run(self.client.close_all_sessions()); an exception is
\* logged and swallowed, with any part of the sessions already closed
GhCloseAgent ==
    /\ UNCHANGED nonGhVars
    /\ gh_pc = "ready"
    /\ \/ /\ gh_clients' = [gh_clients EXCEPT ![gh.client].sessions = {}]
          /\ gh_last' = Some([op |-> "close", ok |-> TRUE])
       \/ /\ gh_clients[gh.client].sessions # {}
          /\ \E left \in SUBSET gh_clients[gh.client].sessions :
                /\ left # {}
                /\ gh_clients' = [gh_clients EXCEPT
                                     ![gh.client].sessions = left]
          /\ gh_last' = Some([op |-> "close", ok |-> FALSE])
    /\ gh_error' = None
    /\ UNCHANGED <<gh_pc, gh_env, gh_args, gh, gh_update, gh_reloads>>

\* except Exception as e: logger.error(...); raise   (in update_config)
GhUpdateRaises(stage, e) ==
    /\ gh_pc' = "ready"
    /\ gh_error' = Some(e)
    /\ gh_last' = Some([op |-> "update_config", ok |-> FALSE,
                        f |-> gh_update[1].f, before |-> gh_update[1].before,
                        sessions_before |-> gh_update[1].sessions_before,
                        stage |-> stage])
    /\ gh_update' = None

\* update_config(config_file) is called
GhUpdateBegin(f) ==
    /\ UNCHANGED nonGhVars
    /\ gh_pc = "ready"
    /\ gh_reloads < MaxReloads
    /\ gh_reloads' = gh_reloads + 1
    /\ gh_update' = Some([f |-> f, before |-> gh,
                          sessions_before |-> gh_clients[gh.client].sessions])
    /\ gh_pc' = "uc_close"
    /\ gh_error' = None
    /\ UNCHANGED <<gh_env, gh_args, gh, gh_clients, gh_last>>

\* asyncio.run(self.client.close_all_sessions()); when it raises, any part
\* of the sessions may already be closed
GhUpdateClose ==
    /\ UNCHANGED nonGhVars
    /\ gh_pc = "uc_close"
    /\ \/ /\ gh_clients' = [gh_clients EXCEPT ![gh.client].sessions = {}]
          /\ gh_pc' = "uc_load"
          /\ UNCHANGED <<gh_update, gh_last, gh_error>>
       \/ /\ \E left \in SUBSET gh_clients[gh.client].sessions :
                gh_clients' = [gh_clients EXCEPT ![gh.client].sessions = left]
          /\ \E e \in ExcMsgs : GhUpdateRaises("close", e)
    /\ UNCHANGED <<gh_env, gh_args, gh, gh_reloads>>

\* self.client = MCPClient.from_config_file(config_file)
\* self.config_file = config_file
GhUpdateLoad ==
    /\ UNCHANGED nonGhVars
    /\ gh_pc = "uc_load"
    /\ IF ConfigFileUnreadable(gh_update[1].f)
       THEN /\ GhUpdateRaises("load", "FileNotFoundError")
            /\ UNCHANGED <<gh, gh_clients>>
       ELSE /\ gh_clients' = Append(gh_clients, NewClient(gh_update[1].f))
            /\ gh' = [gh EXCEPT !.client = Len(gh_clients) + 1,
                                !.config_file = gh_update[1].f]
            /\ gh_pc' = "uc_rebuild"
            /\ UNCHANGED <<gh_update, gh_last, gh_error>>
    /\ UNCHANGED <<gh_env, gh_args, gh_reloads>>

\* Mutant of GhUpdateRebuild: the reasoning loop is not rebuilt
GhUpdateRebuild_KeepLoop ==
    /\ UNCHANGED nonGhVars
    /\ gh_pc = "uc_rebuild"
    /\ gh_pc' = "ready"
    /\ gh_last' = Some([op |-> "update_config", ok |-> TRUE,
                        f |-> gh_update[1].f, before |-> gh_update[1].before,
                        sessions_before |-> gh_update[1].sessions_before,
                        stage |-> "done"])
    /\ gh_update' = None
    /\ UNCHANGED <<gh, gh_error, gh_env, gh_args, gh_clients, gh_reloads>>

\* self.agent = MCPAgent(llm=self.llm, client=self.client,
\*     max_steps=self.max_steps, system_prompt=self.system_prompt)
GhUpdateRebuild ==
    /\ UNCHANGED nonGhVars
    /\ gh_pc = "uc_rebuild"
    /\ \/ /\ gh' = [gh EXCEPT !.agent = MCPAgent(gh.llm, gh.client,
                                                gh.max_steps, gh.system_prompt)]
          /\ gh_pc' = "ready"
          /\ gh_last' = Some([op |-> "update_config", ok |-> TRUE,
                              f |-> gh_update[1].f,
                              before |-> gh_update[1].before,
                              sessions_before |-> gh_update[1].sessions_before,
                              stage |-> "done"])
          /\ gh_update' = None
          /\ UNCHANGED gh_error
       \/ /\ \E e \in ExcMsgs : GhUpdateRaises("rebuild", e)
          /\ UNCHANGED gh
    /\ UNCHANGED <<gh_env, gh_args, gh_clients, gh_reloads>>

GhNext ==
    \/ GhConstruct
    \/ \E srv \in Servers : GhOpenSession(srv)
    \/ GhCloseAgent
    \/ \E f \in ConfigFiles : GhUpdateBegin(f)
    \/ GhUpdateClose
    \/ GhUpdateLoad
    \/ GhUpdateRebuild

\* ========================================================================
\* GitIngestAnalyzer.analyze_repository
\* ========================================================================
ToolStructure == "git_directory_structure"

ToolFiles == "git_read_important_files"

\* TechnologyStack(), with primary_language as parsed
TechnologyStack(primary_language) == [primary_language |-> primary_language]

\* CodeQualityMetrics(), with has_tests as parsed
CodeQualityMetrics(has_tests) == [has_tests |-> has_tests]

\* ProjectComplexity(level=..., score=...)
ProjectComplexity(level, score) == [level |-> level, score |-> score]

\* Field(None, ge=1, le=10): the scores ProjectComplexity accepts
ScoreValid(score) == score = None \/ (score[1] >= 1 /\ score[1] <= 10)

\* What the final analysis request can return in the free-text variant,
\* described by what the parser's regular expressions find in it:
\*   is_str       - the output is a string (re.search raises TypeError
\*                  otherwise)
\*   language     - group of 'Primary Language:'
\*   purpose      - group of '**PROJECT PURPOSE:**'
\*   architecture - group of '**ARCHITECTURE TYPE:**'
\*   features, dependencies, practices - the '- ' items of the sections
\*                  '**KEY FEATURES:**', '**DEPENDENCIES:**' and
\*                  '**DEVELOPMENT PRACTICES:**', when the section is found
\*   tests        - group of 'Has Tests:'
\*   level, score - groups of 'Level:' and 'Score:'
AnalysisText(is_str, language, purpose, sections, tests, level, score) ==
    [is_str |-> is_str, language |-> language, purpose |-> purpose,
     architecture |-> IF sections THEN Some("Pipeline") ELSE None,
     features |-> IF sections THEN Some(<<"feat">>) ELSE None,
     dependencies |-> IF sections THEN Some(<<"dep">>) ELSE None,
     practices |-> IF sections THEN Some(<<"ci">>) ELSE None,
     tests |-> tests, level |-> level, score |-> score]

AnalysisTexts ==
    {AnalysisText(FALSE, None, None, FALSE, None, None, None),
     AnalysisText(TRUE, Some("Python"), Some("purpose"), TRUE, Some("Yes"),
                  Some("Advanced"), Some(7)),
     AnalysisText(TRUE, Some("Python"), Some("purpose"), TRUE, Some("No"),
                  Some("Advanced"), Some(11)),
     AnalysisText(TRUE, None, None, FALSE, None, None, Some(0))}

\* What analysis_agent.run returns in the structured variant: a validated
\* StructuredAnalysis
StructuredAnalyses ==
    {[technology_stack |-> TechnologyStack(Some("Python")),
      project_purpose |-> "purpose",
      architecture_type |-> "Pipeline",
      key_features |-> <<"feat">>,
      dependencies |-> <<"dep">>,
      code_quality |-> CodeQualityMetrics(TRUE),
      project_complexity |-> ProjectComplexity("Advanced", Some(7)),
      development_practices |-> <<"ci">>]}

\* Mutant of ParseFallback: the handler assigns nothing
ParseFallback_KeepsParsed(r) == r

\* except Exception in _parse_and_populate_analysis: the fallback values
ParseFallback(r) ==
    [r EXCEPT !.technology_stack = Some(TechnologyStack(None)),
              !.project_complexity = Some(ProjectComplexity("Unknown", None)),
              !.code_quality = Some(CodeQualityMetrics(FALSE))]

\* The try block of _parse_and_populate_analysis up to the project
\* complexity: technology stack, purpose, architecture, features,
\* dependencies and code quality are stored, each only when it is found
ParseBeforeComplexity(text, r) ==
    [r EXCEPT !.technology_stack = Some(TechnologyStack(text.language)),
              !.project_purpose = IF text.purpose # None THEN text.purpose
                                  ELSE @,
              !.architecture_type = IF text.architecture # None
                                    THEN text.architecture ELSE @,
              !.key_features = IF text.features # None
                               THEN text.features[1] ELSE @,
              !.dependencies = IF text.dependencies # None
                               THEN text.dependencies[1] ELSE @,
              !.code_quality = Some(CodeQualityMetrics(text.tests = Some("Yes")))]

\* The end of the try block: the development practices
ParseAfterComplexity(text, r) ==
    [r EXCEPT !.development_practices = IF text.practices # None
                                        THEN text.practices[1] ELSE @]

\* An extraction of the parser raises on this text
ParseRaises(text) ==
    \/ ~text.is_str
    \/ text.level # None /\ ~ScoreValid(text.score)

\* _parse_and_populate_analysis(analysis_text, results)
ParseAndPopulate(text, r) ==
    IF ~text.is_str
    THEN ParseFallback(r)
    ELSE LET r1 == ParseBeforeComplexity(text, r)
         IN  IF text.level = None
             THEN ParseAfterComplexity(text, r1)
             ELSE IF ~ScoreValid(text.score)
             THEN ParseFallback(r1)
             ELSE ParseAfterComplexity(text,
                      [r1 EXCEPT !.project_complexity =
                          Some(ProjectComplexity(text.level[1], text.score))])

\* The results at the moment the parser's extraction raised
ParseResultsAtFailure(text, r) ==
    IF ~text.is_str THEN r ELSE ParseBeforeComplexity(text, r)

\* The assignments from analysis_result.data in the structured variant
AssignStructured(data, r) ==
    [r EXCEPT !.technology_stack = Some(data.technology_stack),
              !.project_purpose = Some(data.project_purpose),
              !.architecture_type = Some(data.architecture_type),
              !.key_features = data.key_features,
              !.dependencies = data.dependencies,
              !.code_quality = Some(data.code_quality),
              !.project_complexity = Some(data.project_complexity),
              !.development_practices = data.development_practices]

IngInit ==
    /\ ing_variant \in {"free_text", "structured"}
    /\ ing_url \in Urls
    /\ ing_pc = "start"
    /\ results = None
    /\ tool_names = {}
    /\ analysis_output = None
    /\ ing_failures = <<>>

\* Mutant of IngExcept: the handler re-raises instead of recording the error
IngExcept_Reraise(step, e) ==
    /\ ing_failures' = Append(ing_failures, <<step, e, results>>)
    /\ ing_pc' = "raised"
    /\ UNCHANGED results

\* except Exception as e: results.error = str(e); then return results
IngExcept(step, e) ==
    /\ ing_failures' = Append(ing_failures, <<step, e, results>>)
    /\ results' = [results EXCEPT !.error = Some(<<e>>)]
    /\ ing_pc' = "returned"

\* results = AnalysisResults(repo_url=repo_url)
IngStart ==
    /\ UNCHANGED nonIngestVars
    /\ ing_pc = "start"
    /\ results' = AnalysisResults(ing_url, None)
    /\ ing_pc' = "open"
    /\ UNCHANGED <<ing_variant, ing_url, tool_names, analysis_output,
                   ing_failures>>

\* async with self.agent.run_mcp_servers(): entering opens the sessions
IngOpen ==
    /\ UNCHANGED nonIngestVars
    /\ ing_pc = "open"
    /\ \/ /\ ing_pc' = "list_tools"
          /\ UNCHANGED <<results, ing_failures>>
       \/ \E e \in ExcMsgs : IngExcept("open", e)
    /\ UNCHANGED <<ing_variant, ing_url, tool_names, analysis_output>>

\* tools = await self.git_ingest_server.list_tools()
IngListTools ==
    /\ UNCHANGED nonIngestVars
    /\ ing_pc = "list_tools"
    /\ \/ /\ tool_names' \in SUBSET {ToolStructure, ToolFiles}
          /\ ing_pc' = "structure"
          /\ UNCHANGED <<results, ing_failures>>
       \/ /\ \E e \in ExcMsgs : IngExcept("list_tools", e)
          /\ UNCHANGED tool_names
    /\ UNCHANGED <<ing_variant, ing_url, analysis_output>>

\* Mutant of IngStructure: the tool is recorded, the result is not stored
IngStructure_ToolOnly ==
    /\ UNCHANGED nonIngestVars
    /\ ing_pc = "structure"
    /\ IF ToolStructure \in tool_names
       THEN \/ /\ results' = [results EXCEPT
                      !.tools_used = Append(@, ToolStructure)]
               /\ ing_pc' = "files"
               /\ UNCHANGED ing_failures
            \/ \E e \in ExcMsgs : IngExcept("structure", e)
       ELSE /\ ing_pc' = "files"
            /\ UNCHANGED <<results, ing_failures>>
    /\ UNCHANGED <<ing_variant, ing_url, tool_names, analysis_output>>

\* if 'git_directory_structure' in tool_names: run the agent, store
\* results.structure and record the tool
IngStructure ==
    /\ UNCHANGED nonIngestVars
    /\ ing_pc = "structure"
    /\ IF ToolStructure \in tool_names
       THEN \/ /\ results' = [results EXCEPT
                      !.structure = Some("structure text"),
                      !.tools_used = Append(@, ToolStructure)]
               /\ ing_pc' = "files"
               /\ UNCHANGED ing_failures
            \/ \E e \in ExcMsgs : IngExcept("structure", e)
       ELSE /\ ing_pc' = "files"
            /\ UNCHANGED <<results, ing_failures>>
    /\ UNCHANGED <<ing_variant, ing_url, tool_names, analysis_output>>

\* if 'git_read_important_files' in tool_names: run the agent, store
\* results.files = {"content": ...} and record the tool
IngFiles ==
    /\ UNCHANGED nonIngestVars
    /\ ing_pc = "files"
    /\ IF ToolFiles \in tool_names
       THEN \/ /\ results' = [results EXCEPT
                      !.files = Some("files text"),
                      !.tools_used = Append(@, ToolFiles)]
               /\ ing_pc' = "analysis"
               /\ UNCHANGED ing_failures
            \/ \E e \in ExcMsgs : IngExcept("files", e)
       ELSE /\ ing_pc' = "analysis"
            /\ UNCHANGED <<results, ing_failures>>
    /\ UNCHANGED <<ing_variant, ing_url, tool_names, analysis_output>>

\* analysis_result = await self.agent.run(analysis_prompt)   (free text)
\* analysis_result = await analysis_agent.run(analysis_prompt) (structured;
\* a response that fails the schema raises here)
IngAnalysis ==
    /\ UNCHANGED nonIngestVars
    /\ ing_pc = "analysis"
    /\ \/ /\ analysis_output' \in
                {Some(o) : o \in IF ing_variant = "free_text"
                                 THEN AnalysisTexts ELSE StructuredAnalyses}
          /\ ing_pc' = "parse"
          /\ UNCHANGED <<results, ing_failures>>
       \/ /\ \E e \in ExcMsgs : IngExcept("analysis", e)
          /\ UNCHANGED analysis_output
    /\ UNCHANGED <<ing_variant, ing_url, tool_names>>

\* await self._parse_and_populate_analysis(analysis_result.output, results)
\* (free text: the parser catches its own exceptions), or the assignments
\* from analysis_result.data (structured)
IngParse ==
    /\ UNCHANGED nonIngestVars
    /\ ing_pc = "parse"
    /\ LET out == analysis_output[1]
       IN  IF ing_variant = "free_text"
           THEN /\ results' = ParseAndPopulate(out, results)
                /\ ing_failures' =
                      IF ParseRaises(out)
                      THEN Append(ing_failures,
                                  <<"parse", "parse error",
                                    ParseResultsAtFailure(out, results)>>)
                      ELSE ing_failures
           ELSE /\ results' = AssignStructured(out, results)
                /\ UNCHANGED ing_failures
    /\ ing_pc' = "close"
    /\ UNCHANGED <<ing_variant, ing_url, tool_names, analysis_output>>

\* leaving the async with block closes the sessions; it is inside the try
IngClose ==
    /\ UNCHANGED nonIngestVars
    /\ ing_pc = "close"
    /\ \/ /\ ing_pc' = "returned"
          /\ UNCHANGED <<results, ing_failures>>
       \/ \E e \in ExcMsgs : IngExcept("close", e)
    /\ UNCHANGED <<ing_variant, ing_url, tool_names, analysis_output>>

IngNext ==
    \/ IngStart
    \/ IngOpen
    \/ IngListTools
    \/ IngStructure
    \/ IngFiles
    \/ IngAnalysis
    \/ IngParse
    \/ IngClose

\* ========================================================================
\* AnalysisResults: construction and field assignment
\* ========================================================================
\* The error values a caller may assign: none, an empty message, a message
RecErrors == {None, Some(""), Some("msg")}

\* The repo_info values a caller may supply or assign
RecInfos == {None} \cup {Some(from_url(u)) : u \in {UrlOR, UrlPR}}

\* The fields the checks depend on, each with the values it may be given
\* (pydantic does not validate or re-derive anything on assignment)
RecFieldValues ==
    [error |-> RecErrors,
     technology_stack |-> {None, Some(TechnologyStack(None))},
     project_complexity |-> {None, Some(ProjectComplexity("Advanced", None))},
     code_quality |-> {None, Some(CodeQualityMetrics(FALSE))},
     repo_url |-> Urls,
     repo_info |-> RecInfos]

RecInit ==
    /\ rec_pc = "new"
    /\ rec = None
    /\ rec_fresh = FALSE
    /\ rec_derived = 0

\* AnalysisResults(repo_url=url, repo_info=info)
RecConstruct(url, info) ==
    /\ UNCHANGED nonRecVars
    /\ rec_pc = "new"
    /\ rec' = AnalysisResultsInit(url, info, None)
    /\ rec_derived' = IF DerivesRepoInfo(url, info) THEN rec_derived + 1
                      ELSE rec_derived
    /\ rec_fresh' = TRUE
    /\ rec_pc' = "live"

\* results.<field> = value
RecAssign(field, value) ==
    /\ UNCHANGED nonRecVars
    /\ rec_pc = "live"
    /\ rec' = [rec EXCEPT ![field] = value]
    /\ rec_fresh' = FALSE
    /\ UNCHANGED <<rec_pc, rec_derived>>

RecNext ==
    \/ \E url \in Urls, info \in RecInfos : RecConstruct(url, info)
    \/ \E field \in DOMAIN RecFieldValues :
          \E value \in RecFieldValues[field] : RecAssign(field, value)

\* ========================================================================
\* RepositoryInfo.from_url as a called function
\* ========================================================================
\* The characters of the strings given to from_url: a letter, the segment
\* separator and the colon of a scheme
UrlChars == {"a", "/", ":"}

FromUrlInit ==
    /\ fu_pc = "call"
    /\ fu_url \in SeqsUpTo(UrlChars, MaxUrlLen)
    /\ fu_result = None

\* RepositoryInfo.from_url(url)
FromUrlCall ==
    /\ UNCHANGED nonUrlVars
    /\ fu_pc = "call"
    /\ fu_result' = Some(from_url(fu_url))
    /\ fu_pc' = "returned"
    /\ UNCHANGED fu_url

FromUrlNext == FromUrlCall

\* ========================================================================
\* GitHubMCPServerFactory: _build_env_vars, _build_docker_args
\* ========================================================================
\* A Python dict is a sequence of <<key, value>> pairs in insertion order
DictKeys(d) == {d[i][1] : i \in DOMAIN d}

DictGet(d, k) == d[CHOOSE i \in DOMAIN d : d[i][1] = k][2]

\* d[k] = v: an existing key keeps its position, a new key goes last
DictSet(d, k, v) ==
    IF k \in DictKeys(d)
    THEN [i \in DOMAIN d |-> IF d[i][1] = k THEN <<k, v>> ELSE d[i]]
    ELSE Append(d, <<k, v>>)

\* d.update(other)
RECURSIVE DictUpdate(_, _)
DictUpdate(d, other) ==
    IF other = <<>> THEN d
    ELSE DictUpdate(DictSet(d, other[1][1], other[1][2]), Tail(other))

\* ",".join(items)
RECURSIVE JoinComma(_)
JoinComma(items) ==
    IF items = <<>> THEN <<>>
    ELSE IF Len(items) = 1 THEN <<items[1]>>
    ELSE <<items[1], ",">> \o JoinComma(Tail(items))

\* str(cpus) for the float values a configuration may carry
FloatStr(c) == IF c = 0 THEN "0.0" ELSE IF c = 1 THEN "1.0" ELSE "2.0"

DEFAULT_DOCKER_IMAGE == "ghcr.io/github/github-mcp-server"

\* DockerOptions values: every field optional; an empty string, an empty
\* list and 0.0 are falsy
DockerOptionsSet ==
    [name : {None, Some("github-mcp-server")},
     memory : {None, Some("512m")},
     cpus : {None, Some(0), Some(1)},
     network : {None, Some(""), Some("host")},
     volumes : {None, <<>>, <<"/a:/b:ro">>, <<"/a:/b:ro", "/c:/d:rw">>},
     ports : {None, <<"8080:80">>},
     extra_args : {None, <<"--restart=always", "ghcr.io/other/image">>}]

\* custom_env_vars values: absent, one new variable, overrides of computed
\* variables given before and after a new one
CustomEnvVarsSet ==
    {None,
     <<<<"CUSTOM_VAR", <<"value">>>>>>,
     <<<<"CUSTOM_VAR", <<"value">>>>, <<"GITHUB_READ_ONLY", <<"0">>>>>>,
     <<<<"LOG_LEVEL", <<"debug">>>>, <<"CUSTOM_VAR", <<"value">>>>>>}

\* The valid GitHubMCPServerConfig values considered
GitHubMCPServerConfigs ==
    [github_pat : {<<"ghp_x">>},
     read_only : BOOLEAN,
     toolsets : {<<>>, <<"repos", "issues">>},
     base_url : {None, Some(<<"https://ghe.example">>)},
     log_level : {None, Some(<<"info">>)},
     custom_env_vars : CustomEnvVarsSet,
     docker_options : {None} \cup {Some(o) : o \in DockerOptionsSet}]

\* Mutant of build_env_vars: the custom variables are merged first, so the
\* computed values win and the custom keys come first
build_env_vars_CustomFirst(config) ==
    LET custom == IF config.custom_env_vars # None
                  THEN config.custom_env_vars ELSE <<>>
        e1 == DictUpdate(custom,
                  << <<"GITHUB_PERSONAL_ACCESS_TOKEN", config.github_pat>>,
                     <<"GITHUB_TOOLSETS", JoinComma(config.toolsets)>>,
                     <<"GITHUB_READ_ONLY",
                       IF config.read_only THEN <<"1">> ELSE <<"0">> >> >>)
        e2 == IF config.base_url # None /\ config.base_url[1] # <<>>
              THEN DictSet(e1, "GITHUB_BASE_URL", config.base_url[1]) ELSE e1
    IN  IF config.log_level # None
        THEN DictSet(e2, "LOG_LEVEL", config.log_level[1]) ELSE e2

\* _build_env_vars(config)
build_env_vars(config) ==
    LET e1 == << <<"GITHUB_PERSONAL_ACCESS_TOKEN", config.github_pat>>,
                 <<"GITHUB_TOOLSETS", JoinComma(config.toolsets)>>,
                 <<"GITHUB_READ_ONLY",
                   IF config.read_only THEN <<"1">> ELSE <<"0">> >> >>
        e2 == IF config.base_url # None /\ config.base_url[1] # <<>>
              THEN DictSet(e1, "GITHUB_BASE_URL", config.base_url[1]) ELSE e1
        e3 == IF config.log_level # None
              THEN DictSet(e2, "LOG_LEVEL", config.log_level[1]) ELSE e2
    IN  IF config.custom_env_vars # None /\ config.custom_env_vars # <<>>
        THEN DictUpdate(e3, config.custom_env_vars) ELSE e3

\* for key, value in env_vars.items(): args.extend(["-e", f"{key}={value}"])
RECURSIVE EnvFlags(_)
EnvFlags(env) ==
    IF env = <<>> THEN <<>>
    ELSE <<"-e", <<env[1][1], "=", env[1][2]>> >> \o EnvFlags(Tail(env))

\* for x in xs: args.extend([flag, x])
RECURSIVE FlagEach(_, _)
FlagEach(flag, xs) ==
    IF xs = <<>> THEN <<>>
    ELSE <<flag, xs[1]>> \o FlagEach(flag, Tail(xs))

\* if value: args.extend([flag, value])   (for an optional string)
FlagIf(flag, value) ==
    IF value # None /\ value[1] # "" THEN <<flag, value[1]>> ELSE <<>>

\* The Docker options part of _build_docker_args
DockerOptionArgs(o) ==
    (IF o.volumes # None THEN FlagEach("-v", o.volumes) ELSE <<>>)
    \o (IF o.ports # None THEN FlagEach("-p", o.ports) ELSE <<>>)
    \o FlagIf("--network", o.network)
    \o FlagIf("--name", o.name)
    \o FlagIf("--memory", o.memory)
    \o (IF o.cpus # None /\ o.cpus[1] # 0
        THEN <<"--cpus", FloatStr(o.cpus[1])>> ELSE <<>>)
    \o (IF o.extra_args # None THEN o.extra_args ELSE <<>>)

\* _build_docker_args(config, env_vars)
build_docker_args(config, env_vars) ==
    <<"run", "-i", "--rm">>
    \o EnvFlags(env_vars)
    \o (IF config.docker_options # None
        THEN DockerOptionArgs(config.docker_options[1]) ELSE <<>>)
    \o <<DEFAULT_DOCKER_IMAGE>>

FacInit ==
    /\ fac_pc = "call"
    /\ fac_config \in GitHubMCPServerConfigs
    /\ fac_env = None
    /\ fac_args = None

\* create_from_config(config) -> _build_server_from_config(config):
\* MCPServerStdio(command="docker", args=args)
FacCreate ==
    /\ UNCHANGED nonFacVars
    /\ fac_pc = "call"
    /\ fac_env' = build_env_vars(fac_config)
    /\ fac_args' = build_docker_args(fac_config, fac_env')
    /\ fac_pc' = "built"
    /\ UNCHANGED fac_config

FacNext == FacCreate

\* ========================================================================
\* ResultsDisplay.display_summary (AnalysisResults records)
\* ========================================================================
\* The records a results_list may hold: for two URLs, an untouched record, a
\* complete one, a failed one, and a failed one that also has the three
\* nested models
SummaryRecords ==
    {[AnalysisResults(u, err) EXCEPT
         !.technology_stack = IF full THEN Some(TechnologyStack(None)) ELSE None,
         !.project_complexity =
             IF full THEN Some(ProjectComplexity("Advanced", None)) ELSE None,
         !.code_quality = IF full THEN Some(CodeQualityMetrics(FALSE)) ELSE None]
       : u \in {UrlOR, UrlPR}, err \in {None, Some(<<"boom">>)},
         full \in BOOLEAN}

\* sum(1 for r in results_list if r.is_complete)
RECURSIVE CountComplete(_)
CountComplete(rs) ==
    IF rs = <<>> THEN 0
    ELSE (IF is_complete(rs[1]) THEN 1 ELSE 0) + CountComplete(Tail(rs))

\* sum(1 for r in results_list if r.has_error)
RECURSIVE CountFailed(_)
CountFailed(rs) ==
    IF rs = <<>> THEN 0
    ELSE (IF has_error(rs[1]) THEN 1 ELSE 0) + CountFailed(Tail(rs))

\* [r.repo_url for r in results_list if r.has_error]
RECURSIVE FailedRepos(_)
FailedRepos(rs) ==
    IF rs = <<>> THEN <<>>
    ELSE (IF has_error(rs[1]) THEN <<rs[1].repo_url>> ELSE <<>>)
         \o FailedRepos(Tail(rs))

\* f"{(successful/total*100):.1f}": the rate in tenths of a percent, rounded
RateTenths(successful, total) ==
    (successful * 2000 + total) \div (2 * total)

SumInit ==
    /\ sum_pc = "call"
    /\ sum_list \in SeqsUpTo(SummaryRecords, MaxSummaryLen)
    /\ sum_out = <<>>
    /\ sum_error = None

\* display_summary(results_list): the header panel, the statistics panel
\* (whose f-string divides by total; the words "if total > 0 else 0" are part
\* of the text, not of the expression), and the panel of failed URLs
SumDisplay ==
    /\ UNCHANGED nonSumVars
    /\ sum_pc = "call"
    /\ LET total == Len(sum_list)
           successful == CountComplete(sum_list)
           failed == CountFailed(sum_list)
           header == [title |-> "Analysis Summary"]
       IN  IF total = 0
           THEN /\ sum_out' = <<header>>
                /\ sum_error' = Some("ZeroDivisionError")
                /\ sum_pc' = "raised"
           ELSE /\ sum_out' =
                      <<header,
                        [title |-> "Statistics", total |-> total,
                         successful |-> successful, failed |-> failed,
                         rate |-> <<RateTenths(successful, total),
                                    "% if total > 0 else 0">>]>>
                      \o (IF failed > 0
                          THEN <<[title |-> "Failed Analyses",
                                  urls |-> FailedRepos(sum_list)]>>
                          ELSE <<>>)
                /\ sum_error' = None
                /\ sum_pc' = "returned"
    /\ UNCHANGED sum_list

SumNext == SumDisplay

\* ========================================================================
\* logging.py: LoggingConfig, StructuredLogger, get_logger,
\* configure_package_logging, set_log_level
\* ========================================================================
\* Logger names are sequences of dotted components
PackageName == <<"analyze_git_projects">>

LoggerNames ==
    {PackageName, <<"analyze_git_projects", "cli">>, <<"other">>}

\* name == 'analyze_git_projects' or name.startswith('analyze_git_projects.')
IsPackageLoggerName(name) ==
    name = PackageName \/ (Len(name) >= 2 /\ name[1] = PackageName[1])

\* The parent of a logger in the logging hierarchy; <<>> is the root logger
LoggerParent(name) ==
    IF Len(name) >= 2 /\ SubSeq(name, 1, Len(name) - 1) \in LoggerNames
    THEN SubSeq(name, 1, Len(name) - 1) ELSE <<>>

\* level.upper()
Upper(level) ==
    CASE level = "debug" -> "DEBUG"
      [] level = "info" -> "INFO"
      [] OTHER -> level

\* getattr(logging, level) exists for these names
IsLevelName(level) ==
    level \in {"DEBUG", "INFO", "WARNING", "ERROR", "CRITICAL"}

\* getattr(logging, level)
LevelNo(level) ==
    CASE level = "DEBUG" -> 10
      [] level = "INFO" -> 20
      [] level = "WARNING" -> 30
      [] level = "ERROR" -> 40
      [] level = "CRITICAL" -> 50

\* LoggingConfig(level=..., enable_console=..., enable_file=...)
LoggingConfig(level, enable_console, enable_file) ==
    [level |-> Upper(level), enable_console |-> enable_console,
     enable_file |-> enable_file]

\* LoggingConfig(): level "INFO", console and file enabled
DefaultLoggingConfig == LoggingConfig("INFO", TRUE, TRUE)

\* The configurations a caller may pass
LoggingConfigs ==
    {LoggingConfig(l, c, f) :
        l \in {"debug", "INFO"}, c \in BOOLEAN, f \in BOOLEAN}

\* The destination a handler writes to: stderr, or the file <name>.log
HandlerDest(h) == IF h.kind = "console" THEN <<"stderr">> ELSE <<"file", h.file>>

\* A logger never configured: level NOTSET, no handler, propagate True
FreshLogger == [level |-> 0, handlers |-> <<>>, propagate |-> TRUE]

\* Logger.getEffectiveLevel(): the first level set on the way to the root,
\* whose level is WARNING
RECURSIVE EffectiveLevel(_, _)
EffectiveLevel(loggers, name) ==
    IF name = <<>> THEN LevelNo("WARNING")
    ELSE IF loggers[name].level # 0 THEN loggers[name].level
    ELSE EffectiveLevel(loggers, LoggerParent(name))

\* Logger.callHandlers(record): the handlers of the logger and, while
\* propagate is set, of its ancestors, each filtering by its own level
RECURSIVE CallHandlers(_, _, _, _)
CallHandlers(loggers, handlers, name, levelno) ==
    IF name = <<>> THEN <<>>
    ELSE LET own == loggers[name].handlers
             hit == SelectSeq(own, LAMBDA h : levelno >= handlers[h].level)
             here == [i \in 1..Len(hit) |-> HandlerDest(handlers[hit[i]])]
         IN  here \o (IF loggers[name].propagate
                      THEN CallHandlers(loggers, handlers,
                                        LoggerParent(name), levelno)
                      ELSE <<>>)

\* Number of handlers callHandlers finds, whatever their level
RECURSIVE HandlersFound(_, _)
HandlersFound(loggers, name) ==
    IF name = <<>> THEN 0
    ELSE Len(loggers[name].handlers)
         + (IF loggers[name].propagate
            THEN HandlersFound(loggers, LoggerParent(name)) ELSE 0)

\* Logger.debug/info/...: nothing below the effective level; otherwise the
\* handlers found, or logging.lastResort (stderr, WARNING) when none is found
LoggerEmit(loggers, handlers, name, levelno) ==
    IF levelno < EffectiveLevel(loggers, name) THEN <<>>
    ELSE IF HandlersFound(loggers, name) = 0
    THEN (IF levelno >= LevelNo("WARNING") THEN << <<"stderr">> >> ELSE <<>>)
    ELSE CallHandlers(loggers, handlers, name, levelno)

\* {**stored_context, **context}
get_merged_context(stored, context) == DictUpdate(stored, context)

\* " ".join(f"{k}={v}" for k, v in context.items())
RECURSIVE ContextStr(_)
ContextStr(context) ==
    IF context = <<>> THEN <<>>
    ELSE IF Len(context) = 1 THEN <<context[1][1], "=", context[1][2]>>
    ELSE <<context[1][1], "=", context[1][2], " ">> \o ContextStr(Tail(context))

\* _format_message(msg, context)
format_message(msg, context) ==
    IF context = <<>> THEN <<msg>>
    ELSE <<msg, " ">> \o ContextStr(context)

\* The handlers _configure_logger creates for a configuration
NewHandlers(name, config) ==
    (IF config.enable_console
     THEN <<[kind |-> "console", file |-> name,
             level |-> LevelNo(config.level)]>>
     ELSE <<>>)
    \o (IF config.enable_file
        THEN <<[kind |-> "file", file |-> name,
                level |-> LevelNo(config.level)]>>
        ELSE <<>>)

\* Mutant of configure_logger: the existing handlers are kept
configure_logger_KeepHandlers(loggers, handlers, name, config) ==
    LET new == NewHandlers(name, config)
    IN  [loggers |-> [loggers EXCEPT ![name] =
                         [level |-> LevelNo(config.level),
                          handlers |-> loggers[name].handlers \o
                              [i \in 1..Len(new) |-> Len(handlers) + i],
                          propagate |-> FALSE]],
         handlers |-> handlers \o new]

\* StructuredLogger._configure_logger: set the level, clear the handlers,
\* disable propagation, attach a console and a file handler as configured
configure_logger(loggers, handlers, name, config) ==
    LET new == NewHandlers(name, config)
    IN  [loggers |-> [loggers EXCEPT ![name] =
                         [level |-> LevelNo(config.level),
                          handlers |-> [i \in 1..Len(new) |->
                                           Len(handlers) + i],
                          propagate |-> FALSE]],
         handlers |-> handlers \o new]

\* StructuredLogger(name, config) on the configuration object cid of the
\* object list configs; getattr(logging, level) raises for an unknown level
\* name before anything is changed
NewStructuredLogger(name, cid, configs) ==
    IF ~IsLevelName(configs[cid].level)
    THEN /\ lg_error' = Some("AttributeError")
         /\ UNCHANGED <<lg_loggers, lg_handlers, lg_slogs, lg_lastcfg,
                        lg_pkg_mode>>
    ELSE LET c == configure_logger(lg_loggers, lg_handlers, name,
                                   configs[cid])
         IN  /\ lg_loggers' = c.loggers
             /\ lg_handlers' = c.handlers
             /\ lg_slogs' = Append(lg_slogs,
                                   [name |-> name, config |-> cid,
                                    context |-> <<>>])
             /\ lg_lastcfg' = [lg_lastcfg EXCEPT ![name] =
                                  Some([enable_console |->
                                            configs[cid].enable_console,
                                        enable_file |->
                                            configs[cid].enable_file])]
             /\ lg_pkg_mode' = IF name = PackageName
                               THEN [level |-> configs[cid].level,
                                     via |-> "construct"]
                               ELSE lg_pkg_mode
             /\ lg_error' = None

\* The state once the module is imported: its last statement is
\* configure_package_logging()
LogInit ==
    LET c == configure_logger([n \in LoggerNames |-> FreshLogger], <<>>,
                              PackageName, DefaultLoggingConfig)
    IN  /\ lg_loggers = c.loggers
        /\ lg_handlers = c.handlers
        /\ lg_configs = <<DefaultLoggingConfig>>
        /\ lg_slogs = <<[name |-> PackageName, config |-> 1,
                         context |-> <<>>]>>
        /\ lg_package = Some(1)
        /\ lg_op = [op |-> "import"]
        /\ lg_emitted = <<>>
        /\ lg_pkg_mode = [level |-> "INFO", via |-> "construct"]
        /\ lg_lastcfg = [n \in LoggerNames |->
                            IF n = PackageName
                            THEN Some([enable_console |-> TRUE,
                                       enable_file |-> TRUE])
                            ELSE None]
        /\ lg_error = None

\* StructuredLogger(name, config) called directly; config None gives
\* LoggingConfig()
LgConstruct(name, config) ==
    /\ UNCHANGED nonLogVars
    /\ Len(lg_slogs) < 1 + MaxLoggers
    /\ lg_configs' = Append(lg_configs,
                            IF config = None THEN DefaultLoggingConfig
                            ELSE config[1])
    /\ NewStructuredLogger(name, Len(lg_configs) + 1, lg_configs')
    /\ lg_op' = [op |-> "StructuredLogger", name |-> name]
    /\ lg_emitted' = <<>>
    /\ UNCHANGED lg_package

\* get_logger(name): a package name gets the package logger's configuration
\* object, any other name a default configuration
LgGetLogger(name) ==
    /\ UNCHANGED nonLogVars
    /\ Len(lg_slogs) < 1 + MaxLoggers
    /\ IF IsPackageLoggerName(name)
       THEN /\ lg_package # None
            /\ NewStructuredLogger(name, lg_slogs[lg_package[1]].config,
                                   lg_configs)
            /\ UNCHANGED lg_configs
       ELSE /\ lg_configs' = Append(lg_configs, DefaultLoggingConfig)
            /\ NewStructuredLogger(name, Len(lg_configs) + 1, lg_configs')
    /\ lg_op' = [op |-> "get_logger", name |-> name]
    /\ lg_emitted' = <<>>
    /\ UNCHANGED lg_package

\* configure_package_logging(level=..., enable_console=..., enable_file=...)
LgConfigurePackage(config) ==
    /\ UNCHANGED nonLogVars
    /\ Len(lg_slogs) < 1 + MaxLoggers
    /\ lg_configs' = Append(lg_configs, config)
    /\ NewStructuredLogger(PackageName, Len(lg_configs) + 1, lg_configs')
    /\ lg_package' = Some(Len(lg_slogs) + 1)
    /\ lg_op' = [op |-> "configure_package_logging", name |-> PackageName]
    /\ lg_emitted' = <<>>

\* Mutant of LgSetLogLevel: the handlers keep their level
LgSetLogLevel_LoggerOnly(level) ==
    /\ UNCHANGED nonLogVars
    /\ lg_package # None
    /\ IsLevelName(Upper(level))
    /\ lg_configs' = [lg_configs EXCEPT
                         ![lg_slogs[lg_package[1]].config].level = Upper(level)]
    /\ lg_loggers' = [lg_loggers EXCEPT
                         ![lg_slogs[lg_package[1]].name].level =
                             LevelNo(Upper(level))]
    /\ lg_pkg_mode' = [level |-> Upper(level), via |-> "set_log_level"]
    /\ lg_error' = None
    /\ lg_op' = [op |-> "set_log_level", level |-> Upper(level)]
    /\ lg_emitted' = <<>>
    /\ UNCHANGED <<lg_handlers, lg_slogs, lg_package, lg_lastcfg>>

\* set_log_level(level): the configuration object, the package logger and
\* each handler attached to it; an unknown level name raises after the
\* configuration object was changed
LgSetLogLevel(level) ==
    /\ UNCHANGED nonLogVars
    /\ lg_package # None
    /\ LET sl == lg_slogs[lg_package[1]]
           L == Upper(level)
       IN  /\ lg_configs' = [lg_configs EXCEPT ![sl.config].level = L]
           /\ IF IsLevelName(L)
              THEN /\ lg_loggers' = [lg_loggers EXCEPT
                                        ![sl.name].level = LevelNo(L)]
                   /\ lg_handlers' =
                         [h \in DOMAIN lg_handlers |->
                             IF \E i \in DOMAIN lg_loggers[sl.name].handlers :
                                   lg_loggers[sl.name].handlers[i] = h
                             THEN [lg_handlers[h] EXCEPT !.level = LevelNo(L)]
                             ELSE lg_handlers[h]]
                   /\ lg_pkg_mode' = [level |-> L, via |-> "set_log_level"]
                   /\ lg_error' = None
              ELSE /\ lg_error' = Some("AttributeError")
                   /\ UNCHANGED <<lg_loggers, lg_handlers, lg_pkg_mode>>
           /\ lg_op' = [op |-> "set_log_level", level |-> L]
    /\ lg_emitted' = <<>>
    /\ UNCHANGED <<lg_slogs, lg_package, lg_lastcfg>>

\* debug / info / warning / error / critical on a StructuredLogger object:
\* the message is formatted with the merged context and handed to the
\* underlying logger
LgLog(sid, level) ==
    /\ UNCHANGED nonLogVars
    /\ sid \in DOMAIN lg_slogs
    /\ lg_emitted' = LoggerEmit(lg_loggers, lg_handlers, lg_slogs[sid].name,
                                LevelNo(level))
    /\ lg_op' = [op |-> "log", name |-> lg_slogs[sid].name, level |-> level,
                 text |-> format_message("m",
                              get_merged_context(lg_slogs[sid].context, <<>>))]
    /\ lg_error' = None
    /\ UNCHANGED <<lg_loggers, lg_handlers, lg_configs, lg_slogs, lg_package,
                   lg_pkg_mode, lg_lastcfg>>

LogNext ==
    \/ \E name \in LoggerNames, config \in {None} \cup
                                   {Some(c) : c \in LoggingConfigs} :
          LgConstruct(name, config)
    \/ \E name \in LoggerNames : LgGetLogger(name)
    \/ \E config \in LoggingConfigs : LgConfigurePackage(config)
    \/ \E level \in {"DEBUG", "debug", "ERROR", "TRACE"} :
          LgSetLogLevel(level)
    \/ \E sid \in 1..(1 + MaxLoggers), level \in {"DEBUG", "INFO", "ERROR"} :
          LgLog(sid, level)

\* ========================================================================
\* logging.py: StructuredLogger.context and the context of a message
\* ========================================================================
ContextKeys == {"request_id", "user"}

ContextValues == {"a", "b"}

\* The keyword arguments of a context() or of a log call: no keyword, one,
\* or both in either order
ContextKwargs ==
    {<<>>}
    \cup {<< <<k, v>> >> : k \in ContextKeys, v \in ContextValues}
    \cup {d \in {<< <<k1, v1>>, <<k2, v2>> >> :
                     k1 \in ContextKeys, k2 \in ContextKeys,
                     v1 \in ContextValues, v2 \in ContextValues} :
             d[1][1] # d[2][1]}

\* A logger on which no context() was entered yet: getattr(self, "_context",
\* {}) gives the empty map
CtxInit ==
    /\ cx_ctx = <<>>
    /\ cx_saved = <<>>
    /\ cx_scopes = <<>>
    /\ cx_out = None
    /\ cx_op = [op |-> "init"]
    /\ cx_exit = "none"

\* with logger.context(**context): up to the yield
CtxEnter(context) ==
    /\ UNCHANGED nonCtxVars
    /\ Len(cx_saved) < MaxDepth
    /\ cx_saved' = Append(cx_saved, cx_ctx)
    /\ cx_ctx' = DictUpdate(cx_ctx, context)
    /\ cx_scopes' = Append(cx_scopes, context)
    /\ cx_op' = [op |-> "enter", context |-> context]
    /\ UNCHANGED <<cx_out, cx_exit>>

\* Mutant of CtxExit: the context is restored only when the body returns
CtxExit_NoFinally(how) ==
    /\ UNCHANGED nonCtxVars
    /\ cx_saved # <<>>
    /\ cx_ctx' = IF how = "normal" THEN Last(cx_saved) ELSE cx_ctx
    /\ cx_saved' = SubSeq(cx_saved, 1, Len(cx_saved) - 1)
    /\ cx_scopes' = SubSeq(cx_scopes, 1, Len(cx_scopes) - 1)
    /\ cx_op' = [op |-> "exit", how |-> how]
    /\ cx_exit' = how
    /\ UNCHANGED cx_out

\* The innermost open scope is left, by the end of its body or by an
\* exception raised in it: the finally clause restores original_context
CtxExit(how) ==
    /\ UNCHANGED nonCtxVars
    /\ cx_saved # <<>>
    /\ cx_ctx' = Last(cx_saved)
    /\ cx_saved' = SubSeq(cx_saved, 1, Len(cx_saved) - 1)
    /\ cx_scopes' = SubSeq(cx_scopes, 1, Len(cx_scopes) - 1)
    /\ cx_op' = [op |-> "exit", how |-> how]
    /\ cx_exit' = how
    /\ UNCHANGED cx_out

\* logger.info(msg, **context): the text handed to the underlying logger
CtxLog(context) ==
    /\ UNCHANGED nonCtxVars
    /\ cx_out' = Some(format_message("m", get_merged_context(cx_ctx, context)))
    /\ cx_op' = [op |-> "log", context |-> context]
    /\ UNCHANGED <<cx_ctx, cx_saved, cx_scopes, cx_exit>>

CtxNext ==
    \/ \E context \in ContextKwargs : CtxEnter(context)
    \/ \E how \in {"normal", "exception"} : CtxExit(how)
    \/ \E context \in ContextKwargs : CtxLog(context)

\* ========================================================================
\* examples/analyze_documentation.py: DocumentationAnalyzer
\* ========================================================================
\* A response text is a sequence of tokens: braces and brackets, "1" for a
\* JSON scalar, "k" for a list of members that satisfies the
\* DocumentationAnalysis schema, "j" for one that does not, "x" for prose
RespTokens == {"{", "}", "[", "]", "1", "k", "j", "x"}

\* json.loads(text) succeeds
RECURSIVE IsJson(_)
IsJson(t) ==
    \/ t = <<"1">>
    \/ t = <<"[", "]">>
    \/ t = <<"{", "}">>
    \/ Len(t) = 3 /\ t[1] = "{" /\ t[3] = "}" /\ t[2] \in {"k", "j"}
    \/ Len(t) >= 3 /\ t[1] = "[" /\ t[Len(t)] = "]"
          /\ IsJson(SubSeq(t, 2, Len(t) - 1))

\* The type of json.loads(text) for a text that parses
JsonKind(t) ==
    IF t[1] = "{" THEN "dict" ELSE IF t[1] = "[" THEN "list" ELSE "int"

\* re.search(r'\{.*\}', result, re.DOTALL): from the first '{' to the last
\* '}' after it, or no match (the empty sequence)
BraceSpan(t) ==
    LET opens == {i \in DOMAIN t : t[i] = "{"}
        closes == {i \in DOMAIN t : t[i] = "}"}
    IN  IF opens = {} THEN <<>>
        ELSE LET first == CHOOSE i \in opens : \A j \in opens : i <= j
             IN  IF \E j \in closes : j > first
                 THEN SubSeq(t, first,
                             CHOOSE j \in closes : \A m \in closes : m <= j)
                 ELSE <<>>

\* The URL the analyzer is called with, and the repository name it extracts
DocRepoUrl == UrlOR

DocRepoName == Last(SplitSlash(RStripSlash(DocRepoUrl)))

\* DocumentationAnalysis(**parsed_result) for a dictionary with all the
\* required fields
DocParsed(members) ==
    [kind |-> "parsed", source |-> members]

\* The fallback DocumentationAnalysis of analyze_repository
DocPlaceholder(reason) ==
    [kind |-> "placeholder", repo_url |-> DocRepoUrl,
     repo_name |-> DocRepoName,
     project_category |-> "Software Project",
     primary_language |-> "Unknown",
     business_value |-> <<"Repository analysis failed: ", reason>>]

\* The error record of analyze_multiple_repos
DocErrorAnalysis(reason) ==
    [kind |-> "error", repo_url |-> DocRepoUrl,
     repo_name |-> DocRepoName,
     project_category |-> "Analysis Failed",
     primary_language |-> "Unknown",
     business_value |-> <<"Unable to analyze due to error: ", reason>>]

\* The try block of analyze_repository on a response text: the value
\* returned, or the exception that leaves analyze_repository. JSONDecodeError
\* and pydantic's ValidationError are ValueErrors and give the placeholder;
\* DocumentationAnalysis(**x) for an x that is no mapping is a TypeError
ParseResponse(result) ==
    LET span == BraceSpan(result)
        text == IF span # <<>> THEN span ELSE result
    IN  IF ~IsJson(text)
        THEN [ret |-> Some(DocPlaceholder("JSONDecodeError")), exc |-> None]
        ELSE IF JsonKind(text) # "dict"
        THEN [ret |-> None, exc |-> Some("TypeError")]
        ELSE IF text = <<"{", "k", "}">>
        THEN [ret |-> Some(DocParsed(text)), exc |-> None]
        ELSE [ret |-> Some(DocPlaceholder("ValidationError")), exc |-> None]

DocInit ==
    /\ doc_pc = "call"
    /\ doc_via \in {"single", "multiple"}
    /\ doc_agent \in {[raises |-> TRUE, text |-> <<>>]}
                     \cup {[raises |-> FALSE, text |-> t] :
                              t \in SeqsUpTo(RespTokens, MaxRespLen)}
    /\ doc_result = None
    /\ doc_error = None

\* analyze_repository(repo_url), called directly or by analyze_multiple_repos,
\* which turns any exception into an error record
DocAnalyze ==
    /\ UNCHANGED nonDocVars
    /\ doc_pc = "call"
    /\ LET out == IF doc_agent.raises
                  THEN [ret |-> None, exc |-> Some("RuntimeError")]
                  ELSE ParseResponse(doc_agent.text)
       IN  IF out.exc = None
           THEN /\ doc_pc' = "returned"
                /\ doc_result' = out.ret
                /\ doc_error' = None
           ELSE IF doc_via = "multiple"
           THEN /\ doc_pc' = "returned"
                /\ doc_result' = Some(DocErrorAnalysis(out.exc[1]))
                /\ doc_error' = None
           ELSE /\ doc_pc' = "raised"
                /\ doc_result' = None
                /\ doc_error' = out.exc
    /\ UNCHANGED <<doc_via, doc_agent>>

DocNext == DocAnalyze

\* ========================================================================
\* GitIngestAnalyzer._parse_and_populate_analysis on the lines of a text
\* ========================================================================
\* A line "Deployment Tools: docker" is [label |-> <<"Deployment", "Tools">>,
\* value |-> "docker"]. re.IGNORECASE: words are compared after folding
Fold(w) ==
    CASE w = "has" -> "Has"
      [] w = "linting" -> "Linting"
      [] w = "yes" -> "Yes"
      [] OTHER -> w

\* re.search(r'<pattern>:\s*...') finds the pattern wherever it occurs: on
\* every line whose label ends with the pattern's words
LabelMatches(pattern, label) ==
    /\ Len(label) >= Len(pattern)
    /\ \A i \in 1..Len(pattern) :
          Fold(label[Len(label) - Len(pattern) + i]) = pattern[i]

\* The lines on which a pattern with a value group restricted to values
\* matches
MatchingLines(text, pattern, values) ==
    {i \in DOMAIN text : /\ LabelMatches(pattern, text[i].label)
                         /\ Fold(text[i].value) \in values}

\* The first match of re.search, as an optional group(1)
Search(text, pattern, values) ==
    LET m == MatchingLines(text, pattern, values)
    IN  IF m = {} THEN None
        ELSE Some(Fold(text[CHOOSE i \in m : \A j \in m : i <= j].value))

\* The values the texts use: words, Yes/No answers and digit strings
TextWords == {"docker", "pytest", "Python", "Advanced"}

TextAnswers == {"Yes", "No"}

TextNumbers == {"7", "11"}

\* int(score_match.group(1))
IntOf(digits) == IF digits = "7" THEN 7 ELSE 11

TextValues == TextWords \cup TextAnswers \cup TextNumbers \cup {"yes"}

\* ([^\n]+): any value; (Yes|No); (\d+)
AnyValue == TextValues \ {"yes"}

\* A csv field: [x.strip() for x in match.group(1).split(',')], or the default
ListField(text, pattern) ==
    IF Search(text, pattern, AnyValue) = None THEN <<>>
    ELSE <<Search(text, pattern, AnyValue)[1]>>

\* Mutant of BoolField: the default is true
BoolField_DefaultTrue(text, pattern) ==
    IF Search(text, pattern, TextAnswers) = None THEN TRUE
    ELSE Search(text, pattern, TextAnswers)[1] = "Yes"

\* A Yes|No field: match.group(1).lower() == 'yes', or the default False
BoolField(text, pattern) ==
    IF Search(text, pattern, TextAnswers) = None THEN FALSE
    ELSE Search(text, pattern, TextAnswers)[1] = "Yes"

\* tech_stack after the seven searches
ParsedTechnologyStack(text) ==
    [primary_language |-> Search(text, <<"Primary", "Language">>, AnyValue),
     languages |-> ListField(text, <<"Languages">>),
     frameworks |-> ListField(text, <<"Frameworks">>),
     tools |-> ListField(text, <<"Tools">>),
     databases |-> ListField(text, <<"Databases">>),
     deployment_tools |-> ListField(text, <<"Deployment", "Tools">>),
     testing_frameworks |-> ListField(text, <<"Testing", "Frameworks">>)]

\* code_quality after the searches for the Yes|No labels
ParsedCodeQuality(text) ==
    [has_tests |-> BoolField(text, <<"Has", "Tests">>),
     has_documentation |-> BoolField(text, <<"Has", "Documentation">>),
     has_ci_cd |-> BoolField(text, <<"Has", "CI/CD">>),
     has_linting |-> BoolField(text, <<"Has", "Linting">>),
     has_type_checking |-> BoolField(text, <<"Has", "Type", "Checking">>)]

\* TechnologyStack() and CodeQualityMetrics() with every field
DefaultTechnologyStack == ParsedTechnologyStack(<<>>)

DefaultCodeQuality == ParsedCodeQuality(<<>>)

\* The nested models _parse_and_populate_analysis leaves in results: the
\* project complexity is built only when 'Level:' is found, and a score
\* outside 1..10 raises there and gives the three fallback values
ParseLines(text) ==
    LET level == Search(text, <<"Level">>, AnyValue)
        found == Search(text, <<"Score">>, TextNumbers)
        score == IF found = None THEN None ELSE Some(IntOf(found[1]))
    IN  IF level = None
        THEN [technology_stack |-> ParsedTechnologyStack(text),
              code_quality |-> ParsedCodeQuality(text),
              project_complexity |-> None,
              raised |-> FALSE]
        ELSE IF ~ScoreValid(score)
        THEN [technology_stack |-> DefaultTechnologyStack,
              code_quality |-> DefaultCodeQuality,
              project_complexity |-> Some(ProjectComplexity("Unknown", None)),
              raised |-> TRUE]
        ELSE [technology_stack |-> ParsedTechnologyStack(text),
              code_quality |-> ParsedCodeQuality(text),
              project_complexity |->
                  Some(ProjectComplexity(level[1], score)),
              raised |-> FALSE]

\* The lines the texts are made of
TextLines ==
    {[label |-> l, value |-> v] :
        l \in {<<"Tools">>, <<"Deployment", "Tools">>}, v \in {"docker"}}
    \cup {[label |-> l, value |-> v] :
        l \in {<<"Frameworks">>, <<"Testing", "Frameworks">>},
        v \in {"pytest"}}
    \cup {[label |-> <<"Has", "Tests">>, value |-> v] : v \in TextAnswers}
    \cup {[label |-> <<"Has", "Linting">>, value |-> "Yes"],
          [label |-> <<"has", "linting">>, value |-> "yes"],
          [label |-> <<"Level">>, value |-> "Advanced"]}
    \cup {[label |-> <<"Score">>, value |-> n] : n \in TextNumbers}

ParseInit ==
    /\ ps_pc = "call"
    /\ ps_text \in SeqsUpTo(TextLines, MaxLines)
    /\ ps_result = None

\* await self._parse_and_populate_analysis(analysis_text, results)
ParseCall ==
    /\ UNCHANGED nonParseVars
    /\ ps_pc = "call"
    /\ ps_result' = Some(ParseLines(ps_text))
    /\ ps_pc' = "returned"
    /\ UNCHANGED ps_text

ParseNext == ParseCall

\* ========================================================================
\* logging.py: one StructuredLogger used by several threads
\* ========================================================================
Threads == {1, 2}

\* The keywords the threads enter scopes with
ThreadKwargs ==
    {<< <<"request_id", "a">> >>, << <<"request_id", "b">> >>,
     << <<"user", "a">> >>}

ThrInit ==
    /\ th_ctx = <<>>
    /\ th_pc = [t \in Threads |-> "idle"]
    /\ th_orig = [t \in Threads |-> <<>>]
    /\ th_scopes = [t \in Threads |-> <<>>]
    /\ th_calls = 0
    /\ th_written = 0
    /\ th_op = [op |-> "init"]

\* context(**context), first statement:
\* original_context = getattr(self, "_context", {})
ThrEnterRead(t, context) ==
    /\ UNCHANGED nonThrVars
    /\ th_pc[t] = "idle"
    /\ Len(th_scopes[t]) < MaxThreadScopes
    /\ th_orig' = [th_orig EXCEPT ![t] = Append(@, th_ctx)]
    /\ th_scopes' = [th_scopes EXCEPT ![t] = Append(@, context)]
    /\ th_pc' = [th_pc EXCEPT ![t] = "entering"]
    /\ th_op' = [op |-> "read", thread |-> t]
    /\ UNCHANGED <<th_ctx, th_calls, th_written>>

\* context(**context), second statement, then the yield:
\* self._context = {**original_context, **context}
ThrEnterWrite(t) ==
    /\ UNCHANGED nonThrVars
    /\ th_pc[t] = "entering"
    /\ th_ctx' = DictUpdate(Last(th_orig[t]), Last(th_scopes[t]))
    /\ th_pc' = [th_pc EXCEPT ![t] = "idle"]
    /\ th_op' = [op |-> "enter", thread |-> t]
    /\ UNCHANGED <<th_orig, th_scopes, th_calls, th_written>>

\* The body of the innermost scope of the thread ends:
\* finally: self._context = original_context
ThrExit(t) ==
    /\ UNCHANGED nonThrVars
    /\ th_pc[t] = "idle"
    /\ th_scopes[t] # <<>>
    /\ th_ctx' = Last(th_orig[t])
    /\ th_orig' = [th_orig EXCEPT ![t] = SubSeq(@, 1, Len(@) - 1)]
    /\ th_scopes' = [th_scopes EXCEPT ![t] = SubSeq(@, 1, Len(@) - 1)]
    /\ th_op' = [op |-> "exit", thread |-> t]
    /\ UNCHANGED <<th_pc, th_calls, th_written>>

\* logger.info(msg) by a thread: the message is formatted with the shared
\* context and the handler, which takes its lock, writes one record
ThrLog(t) ==
    /\ UNCHANGED nonThrVars
    /\ th_pc[t] = "idle"
    /\ th_calls < MaxMessages
    /\ th_calls' = th_calls + 1
    /\ th_written' = th_written + 1
    /\ th_op' = [op |-> "log", thread |-> t,
                 text |-> format_message("m",
                              get_merged_context(th_ctx, <<>>))]
    /\ UNCHANGED <<th_ctx, th_pc, th_orig, th_scopes>>

ThrNext ==
    \/ \E t \in Threads, context \in ThreadKwargs : ThrEnterRead(t, context)
    \/ \E t \in Threads : ThrEnterWrite(t)
    \/ \E t \in Threads : ThrExit(t)
    \/ \E t \in Threads : ThrLog(t)

\* ========================================================================
\* GitHubMCAnalyzer.analyze_repository
\* ========================================================================
\* results = SimpleProject(name=repo_info.name, url=repo_info.url,
\*     description="No description available", technologies=[],
\*     key_features=[], highlights=None)
McpInitialRecord(url) ==
    SimpleProject(from_url(url).name, from_url(url).url, Some(DescPlaceholder),
                  <<>>, <<>>, None)

\* analysis_result.data: nothing, or a SimpleProject the model produced, with
\* a real description, the placeholder, an empty one or none
McpModelData ==
    {None} \cup
    {Some(SimpleProject(<<"r">>, <<"o", "/", "r">>, d, <<"Python">>,
                        <<"feat">>, None)) :
        d \in {Some(<<"model text">>), Some(DescPlaceholder), Some(<<>>),
               None}}

\* search_result.output: empty, a string (its first element is a character),
\* or a list whose first element is a dict with or without "description"
McpSearchOutputs == {"empty", "string", "dict_with", "dict_without"}

\* not results.description or results.description == "No description available"
McpNeedsDescription(r) ==
    \/ r.description = None
    \/ r.description = Some(<<>>)
    \/ r.description = Some(DescPlaceholder)

\* repo_data.get("description", results.description) raises AttributeError
\* when repo_data is not a dict
McpAugmentRaises(r, output) ==
    output = "string" /\ McpNeedsDescription(r)

\* if search_result.output: repo_data = search_result.output[0]; fill the
\* description from it when the record has none of its own
McpAugment(r, output) ==
    IF output = "dict_with" /\ McpNeedsDescription(r)
    THEN [r EXCEPT !.description = Some(<<"api text">>)]
    ELSE r

McpInit ==
    /\ mcp_url \in Urls
    /\ mcp_pc = "start"
    /\ mcp_results = None
    /\ mcp_data = None
    /\ mcp_failed = None

\* Mutant of McpExcept: the handler falls back to a fresh placeholder record
McpExcept_ResetRecord(step, e) ==
    /\ mcp_failed' = Some(<<step, e>>)
    /\ mcp_results' = McpInitialRecord(mcp_url)
    /\ mcp_pc' = "returned"

\* except Exception as e: console.print(...); then return results
McpExcept(step, e) ==
    /\ mcp_failed' = Some(<<step, e>>)
    /\ mcp_results' = mcp_results
    /\ mcp_pc' = "returned"

\* repo_info = RepositoryInfo.from_url(repo_url); results = SimpleProject(...)
McpStart ==
    /\ UNCHANGED nonMcpVars
    /\ mcp_pc = "start"
    /\ mcp_results' = McpInitialRecord(mcp_url)
    /\ mcp_pc' = "open"
    /\ UNCHANGED <<mcp_url, mcp_data, mcp_failed>>

\* async with self.agent.run_mcp_servers(): entering starts the servers
McpOpen ==
    /\ UNCHANGED nonMcpVars
    /\ mcp_pc = "open"
    /\ \/ /\ mcp_pc' = "analysis"
          /\ UNCHANGED <<mcp_results, mcp_failed>>
       \/ \E e \in ExcMsgs : McpExcept("open", e)
    /\ UNCHANGED <<mcp_url, mcp_data>>

\* analysis_result = await analysis_agent.run(prompt)
\* if analysis_result.data: results = analysis_result.data
McpAnalysis ==
    /\ UNCHANGED nonMcpVars
    /\ mcp_pc = "analysis"
    /\ \/ \E data \in McpModelData :
             /\ mcp_data' = Some(data)
             /\ mcp_results' = IF data # None THEN data[1] ELSE mcp_results
             /\ mcp_pc' = "search"
             /\ UNCHANGED mcp_failed
       \/ /\ \E e \in ExcMsgs : McpExcept("analysis", e)
          /\ UNCHANGED mcp_data
    /\ UNCHANGED mcp_url

\* search_result = await self.agent.run(f"Search for repository: ...")
\* followed by the augmentation of the description
McpSearch ==
    /\ UNCHANGED nonMcpVars
    /\ mcp_pc = "search"
    /\ \/ \E output \in McpSearchOutputs :
             IF McpAugmentRaises(mcp_results, output)
             THEN McpExcept("augment", "AttributeError")
             ELSE /\ mcp_results' = McpAugment(mcp_results, output)
                  /\ mcp_pc' = "close"
                  /\ UNCHANGED mcp_failed
       \/ \E e \in ExcMsgs : McpExcept("augment", e)
    /\ UNCHANGED <<mcp_url, mcp_data>>

\* leaving the async with block stops the servers; it is inside the try
McpClose ==
    /\ UNCHANGED nonMcpVars
    /\ mcp_pc = "close"
    /\ \/ /\ mcp_pc' = "returned"
          /\ UNCHANGED <<mcp_results, mcp_failed>>
       \/ \E e \in ExcMsgs : McpExcept("close", e)
    /\ UNCHANGED <<mcp_url, mcp_data>>

McpNext ==
    \/ McpStart
    \/ McpOpen
    \/ McpAnalysis
    \/ McpSearch
    \/ McpClose

\* ========================================================================
\* Claims about cli_main (checked under SpecCli)
\* ========================================================================
\* The synthetic error records the per-repository except clause can build
IsErrorRecord(r, i) ==
    \E e \in ExcMsgs \cup {"no attribute name", "no attribute to_json"} :
        r = ErrorRecord(cli, repo_urls[i], e)

\* C1: after the loop the result list holds exactly one record per URL, in
\* URL order: the analyzer's record when the URL's processing succeeded and
\* otherwise one synthetic error record, whichever per-URL step raised.
C1_OneRecordPerUrl ==
    cli_pc = "summary" =>
        /\ Len(results_list) = Len(repo_urls)
        /\ \A i \in DOMAIN results_list :
              /\ appended_by[i][1] = i
              /\ appended_by[i][2] = "except" => IsErrorRecord(results_list[i], i)
              /\ appended_by[i][2] = "try" =>
                    results_list[i] \in AnalyzerReturns(cli, repo_urls[i])

\* C5: every run ends with exit status 0 or 1; status 1 when the connection
\* test fails, when no repository URL was given, or on an interrupt.
C5_ExitStatusZeroOrOne ==
    exit_status # None =>
        /\ exit_status[1] \in {0, 1}
        /\ (\E i \in DOMAIN connection_tests : ~connection_tests[i])
              => exit_status[1] = 1
        /\ interrupted # None => exit_status[1] = 1
        /\ (repo_urls = <<>> /\ ~test_connection) => exit_status[1] = 1

\* C6: without --test-connection no analyze_repository call is made unless
\* an earlier test_connection call of the run returned true; when
\* test_connection returns false the run ends with status 1, having analyzed
\* nothing and printed no summary.
C6_AnalyzeOnlyAfterConnectionOk ==
    ~test_connection =>
        /\ analyzed # <<>> =>
              \E i \in DOMAIN connection_tests : connection_tests[i]
        /\ (\E i \in DOMAIN connection_tests : ~connection_tests[i]) =>
              /\ cli_pc = "exited"
              /\ exit_status = Some(1)
              /\ analyzed = <<>>
              /\ summary_total = None

\* C6 witness: a run without --test-connection analyzed its second URL
C6_Witness ==
    /\ ~test_connection
    /\ Len(analyzed) = 2
    /\ connection_tests = <<TRUE>>

\* C7: with --test-connection the CLI performs exactly one connection
\* self-test and nothing else, exits 0 when it returned true and 1 when it
\* returned false, and is usable with zero URLs: a run that made no self-test
\* ended because the analyzer could not be built or the operator
\* interrupted, both with status 1.
C7_TestConnectionOnly ==
    (test_connection /\ cli_pc = "exited") =>
        /\ analyzed = <<>>
        /\ handled = <<>>
        /\ results_list = <<>>
        /\ disk = {}
        /\ Len(connection_tests) <= 1
        /\ connection_tests = <<TRUE>> => exit_status = Some(0)
        /\ connection_tests = <<FALSE>> => exit_status = Some(1)
        /\ connection_tests = <<>> => exit_status = Some(1)

C9_SummaryIffSeveral ==
    cli_pc = "exited" =>
        /\ summary_total # None =>
              /\ Len(repo_urls) > 1
              /\ summary_total = Some(Len(repo_urls))
        /\ (exit_status = Some(0) /\ ~test_connection /\ Len(repo_urls) > 1)
              => summary_total = Some(Len(repo_urls))

\* C10: for every URL the CLI finished processing, a JSON artifact holding
\* that URL's record is on disk, the analyzer's record or the record with
\* the failure information, one artifact per record of the result list.
C10_ArtifactPerRecord ==
    cli_pc = "summary" =>
        \A i \in DOMAIN results_list :
            \E d \in disk : d[2] = Some(results_list[i])


\* ========================================================================
\* Claims about GitHubAgent (checked under SpecAgent)
\* ========================================================================
\* C2: every run closes all sessions of the agent's client before it
\* returns to its caller, on a result and on an exception alike, and the
\* exception is still propagated; hence no session is open while no run is
\* in progress.
C2_SessionsClosedAfterRun ==
    /\ []((\A t \in Runs : ~AgentActive(t)) => sessions = {})
    /\ [][\A t \in Runs :
            (AgentActive(t) /\ ~AgentActive(t)') =>
                /\ sessions' = {}
                /\ agent_pending[t] = Some("result") => agent_pc'[t] = "returned"
                /\ agent_pending[t] # Some("result") => agent_pc'[t] = "raised"]_vars

\* C2 witness: a run that used a session ended with its exception
\* propagated, and no session is open
C2_Witness ==
    \E t \in Runs :
        /\ agent_pc[t] = "raised"
        /\ agent_used[t] # {}
        /\ \A u \in Runs : ~AgentActive(u)
        /\ sessions = {}

\* ========================================================================
\* Claims about GitHubAgent construction and update_config (under SpecGh)
\* ========================================================================
\* C11: a successful update_config(f) first closes all sessions of the
\* current client, then loads a new client from f and rebuilds the reasoning
\* loop on it; the chat model, the system prompt and max_steps are unchanged,
\* get_config_file() returns f and the loop is bound to the new client.
C11_UpdateConfigRebuilds ==
    /\ gh_pc \in {"uc_load", "uc_rebuild"} =>
          gh_clients[gh_update[1].before.client].sessions = {}
    /\ gh_pc = "uc_load" =>
          /\ gh.client = gh_update[1].before.client
          /\ gh.agent = gh_update[1].before.agent
    /\ (gh_pc = "ready" /\ gh_last # None
           /\ gh_last[1].op = "update_config" /\ gh_last[1].ok) =>
          LET before == gh_last[1].before
          IN  /\ gh_clients[before.client].sessions = {}
              /\ gh.client # before.client
              /\ gh_clients[gh.client].config = gh_last[1].f
              /\ gh.agent = MCPAgent(gh.llm, gh.client, gh.max_steps,
                                     gh.system_prompt)
              /\ gh.agent.client = gh.client
              /\ gh.llm = before.llm
              /\ gh.system_prompt = before.system_prompt
              /\ gh.max_steps = before.max_steps
              /\ get_config_file = gh_last[1].f

\* C11 witness: update_config succeeded on an agent that had a session open
\* and was constructed from another file
C11_Witness ==
    /\ gh_pc = "ready"
    /\ gh_last # None
    /\ gh_last[1].op = "update_config" /\ gh_last[1].ok
    /\ gh_last[1].sessions_before # {}
    /\ gh_last[1].before.config_file # gh_last[1].f
    /\ get_config_file = gh_last[1].f

\* C12 as stated: with a readable configuration file, for every combination
\* of key presence and constructor options, construction uses the OpenRouter
\* endpoint (default model 'google/gemini-2.5-flash-lite') when the
\* OpenRouter key is present, else the OpenAI provider (default model
\* 'gpt-4o-mini') when the OpenAI key is present, and fails with 'No API key
\* found' only when neither key is present; model_name replaces the default
\* model and never changes the provider.
C12_ProviderFromEnvironment ==
    (gh_last # None /\ gh_last[1].op = "__init__"
        /\ ~ConfigFileUnreadable(gh_args.config_file)) =>
       LET model(default) == IF gh_args.model_name # None
                             THEN gh_args.model_name[1] ELSE default
       IN  /\ Truthy(gh_env.openrouter) =>
                 /\ gh_pc = "ready"
                 /\ gh.llm.base_url = Some(OpenRouterBaseUrl)
                 /\ gh.llm.api_key = gh_env.openrouter[1]
                 /\ gh.llm.model = model(OpenRouterDefaultModel)
           /\ (~Truthy(gh_env.openrouter) /\ Truthy(gh_env.openai)) =>
                 /\ gh_pc = "ready"
                 /\ gh.llm.base_url = None
                 /\ gh.llm.api_key = gh_env.openai[1]
                 /\ gh.llm.model = model(OpenAIDefaultModel)
           /\ gh_error = Some(NoApiKeyMessage) =>
                 (~Truthy(gh_env.openrouter) /\ ~Truthy(gh_env.openai))

\* ========================================================================
\* Claims about AnalysisResults (checked under SpecRec)
\* ========================================================================
\* C13: under any sequence of field assignments has_error is true exactly
\* when error is non-null and is_complete exactly when technology_stack,
\* project_complexity and code_quality are non-null and error is null; they
\* are never both true, a freshly constructed record has both false, and
\* setting error on a complete record makes it not complete.
C13_DerivedFlags ==
    /\ [](rec_pc = "live" =>
            /\ has_error(rec) <=> rec.error # None
            /\ is_complete(rec) <=>
                  (/\ rec.technology_stack # None
                   /\ rec.project_complexity # None
                   /\ rec.code_quality # None
                   /\ rec.error = None)
            /\ ~(is_complete(rec) /\ has_error(rec))
            /\ rec_fresh => (~has_error(rec) /\ ~is_complete(rec)))
    /\ [][(rec_pc = "live" /\ is_complete(rec) /\ rec'.error # None) =>
             (has_error(rec') /\ ~is_complete(rec'))]_vars

\* C13 witness: a record with the three nested models set and an empty
\* error message: it has an error and is not complete
C13_Witness ==
    /\ rec_pc = "live"
    /\ rec.technology_stack # None
    /\ rec.project_complexity # None
    /\ rec.code_quality # None
    /\ rec.error = Some("")
    /\ has_error(rec)
    /\ ~is_complete(rec)

\* C14 as stated: after construction and after any later field assignments,
\* repo_info is non-null whenever repo_url is non-empty, and repo_info is
\* derived at most once, at construction, and only when none was supplied.
C14_RepoInfoWheneverUrl ==
    /\ rec_derived <= 1
    /\ rec_pc = "live" => (rec.repo_url # <<>> => rec.repo_info # None)

\* ========================================================================
\* Claims about RepositoryInfo.from_url (checked under SpecUrl)
\* ========================================================================
SlashFree(s) == \A i \in 1..Len(s) : s[i] # "/"

\* u is scheme://host/segment or scheme://host/segment/ : one path segment
\* after the host
HostAndOnePathSegment(u) ==
    \E i, j \in 1..Len(u) :
        /\ i > 1 /\ j > i + 3 /\ j < Len(u)
        /\ SlashFree(SubSeq(u, 1, i - 1))
        /\ u[i] = ":" /\ u[i + 1] = "/" /\ u[i + 2] = "/"
        /\ SlashFree(SubSeq(u, i + 3, j - 1))
        /\ u[j] = "/"
        /\ LET rest == SubSeq(u, j + 1, Len(u))
           IN  \/ SlashFree(rest)
               \/ /\ Len(rest) > 1 /\ rest[Len(rest)] = "/"
                  /\ SlashFree(SubSeq(rest, 1, Len(rest) - 1))

\* C15 as stated: from_url returns url unchanged, name = the final segment
\* after trimming the trailing slash, owner = the segment before it, or
\* 'unknown' when there are fewer than two; in particular a URL with a single
\* path segment after the host, such as 'https://github.com/widgets/', gives
\* owner 'unknown'.
C15_FromUrlSegments ==
    fu_pc = "returned" =>
        LET r == fu_result[1]
        IN  /\ r.url = fu_url
            /\ SlashFree(r.name)
            /\ \E k \in 0..Len(fu_url) :
                  /\ \A i \in (k + 1)..Len(fu_url) : fu_url[i] = "/"
                  /\ k > 0 => fu_url[k] # "/"
                  /\ Len(r.name) <= k
                  /\ r.name = SubSeq(fu_url, k - Len(r.name) + 1, k)
                  /\ Len(r.name) < k => fu_url[k - Len(r.name)] = "/"
            /\ HostAndOnePathSegment(fu_url) => r.owner = StrUnknown

\* ========================================================================
\* Claims about GitHubMCPServerFactory (checked under SpecFac)
\* ========================================================================
\* Number of leading '-e KEY=VALUE' pairs after 'run -i --rm'
FacEnvCount ==
    CHOOSE n \in 0..Len(fac_args) :
        /\ 3 + 2 * n <= Len(fac_args)
        /\ \A i \in 1..n : fac_args[2 + 2 * i] = "-e"
        /\ (4 + 2 * n > Len(fac_args) \/ fac_args[4 + 2 * n] # "-e")

FacEnvKey(i) == fac_args[3 + 2 * i][1]

FacEnvValue(i) == fac_args[3 + 2 * i][3]

\* The arguments between the environment pairs and the image name
FacDockerPart == SubSeq(fac_args, 4 + 2 * FacEnvCount, Len(fac_args) - 1)

FacFlagOrder == <<"-v", "-p", "--network", "--name", "--memory", "--cpus">>

\* The variables computed from the configuration itself, with their values
FacComputed ==
    [k \in {"GITHUB_PERSONAL_ACCESS_TOKEN", "GITHUB_TOOLSETS",
            "GITHUB_READ_ONLY"}
           \cup (IF fac_config.base_url # None THEN {"GITHUB_BASE_URL"}
                 ELSE {})
           \cup (IF fac_config.log_level # None THEN {"LOG_LEVEL"} ELSE {})
     |-> CASE k = "GITHUB_PERSONAL_ACCESS_TOKEN" -> fac_config.github_pat
           [] k = "GITHUB_TOOLSETS" ->
                 IF fac_config.toolsets = <<>> THEN <<>>
                 ELSE <<"repos", ",", "issues">>
           [] k = "GITHUB_READ_ONLY" ->
                 IF fac_config.read_only THEN <<"1">> ELSE <<"0">>
           [] k = "GITHUB_BASE_URL" -> fac_config.base_url[1]
           [] k = "LOG_LEVEL" -> fac_config.log_level[1]]

FacCustom ==
    IF fac_config.custom_env_vars = None THEN <<>>
    ELSE fac_config.custom_env_vars

\* C16: the argument list is 'run', '-i', '--rm'; then one '-e KEY=VALUE'
\* pair per environment entry, the three mandatory ones first and in order,
\* then GITHUB_BASE_URL, LOG_LEVEL and the custom variables, each key once
\* and a custom value overriding a computed one; then the Docker options in
\* the order volumes, ports, network, name, memory, cpus, extra_args; and the
\* image name is the last element.
C16_DockerArgsLayout ==
    fac_pc = "built" =>
        LET n == FacEnvCount
            T == FacDockerPart
            pos(k) == CHOOSE i \in 1..n : FacEnvKey(i) = k
            o == fac_config.docker_options
        IN  /\ SubSeq(fac_args, 1, 3) = <<"run", "-i", "--rm">>
            /\ fac_args[Len(fac_args)] = "ghcr.io/github/github-mcp-server"
            /\ n >= 3
            /\ FacEnvKey(1) = "GITHUB_PERSONAL_ACCESS_TOKEN"
            /\ FacEnvKey(2) = "GITHUB_TOOLSETS"
            /\ FacEnvKey(3) = "GITHUB_READ_ONLY"
            /\ \A i, j \in 1..n : FacEnvKey(i) = FacEnvKey(j) => i = j
            /\ {FacEnvKey(i) : i \in 1..n} =
                  DOMAIN FacComputed \cup DictKeys(FacCustom)
            /\ \A i \in 1..n :
                  /\ fac_args[3 + 2 * i][2] = "="
                  /\ FacEnvValue(i) =
                        IF FacEnvKey(i) \in DictKeys(FacCustom)
                        THEN DictGet(FacCustom, FacEnvKey(i))
                        ELSE FacComputed[FacEnvKey(i)]
            /\ {"GITHUB_BASE_URL", "LOG_LEVEL"} \subseteq DOMAIN FacComputed
                  => pos("GITHUB_BASE_URL") < pos("LOG_LEVEL")
            /\ \A i, j \in 1..n :
                  (FacEnvKey(i) \in DOMAIN FacComputed
                     /\ FacEnvKey(j) \notin DOMAIN FacComputed) => i < j
            /\ o = None => T = <<>>
            /\ o # None =>
                  LET opts == o[1]
                      vols == IF opts.volumes = None THEN <<>>
                              ELSE opts.volumes
                      extra == IF opts.extra_args = None THEN <<>>
                               ELSE opts.extra_args
                      F == SubSeq(T, 1, Len(T) - Len(extra))
                  IN  /\ Len(T) >= Len(extra)
                      /\ SubSeq(T, Len(T) - Len(extra) + 1, Len(T)) = extra
                      /\ \A a, b \in 1..6 : \A i, j \in 1..Len(F) :
                            (a < b /\ F[i] = FacFlagOrder[a]
                                   /\ F[j] = FacFlagOrder[b]) => i < j
                      /\ \A k \in 1..Len(vols) :
                            F[2 * k - 1] = "-v" /\ F[2 * k] = vols[k]
                      /\ opts.ports # None =>
                            \A k \in 1..Len(opts.ports) :
                               /\ F[2 * Len(vols) + 2 * k - 1] = "-p"
                               /\ F[2 * Len(vols) + 2 * k] = opts.ports[k]
                      /\ opts.name # None =>
                            \E i \in 1..(Len(F) - 1) :
                               F[i] = "--name" /\ F[i + 1] = opts.name[1]
                      /\ opts.memory # None =>
                            \E i \in 1..(Len(F) - 1) :
                               F[i] = "--memory" /\ F[i + 1] = opts.memory[1]

\* C16 witness: a configuration with a base URL, a log level, a custom
\* variable overriding GITHUB_READ_ONLY and Docker options with two volumes
\* and extra arguments was turned into an argument list
C16_Witness ==
    /\ fac_pc = "built"
    /\ fac_config.base_url # None
    /\ fac_config.log_level # None
    /\ fac_config.read_only
    /\ "GITHUB_READ_ONLY" \in DictKeys(FacCustom)
    /\ FacEnvValue(3) = <<"0">>
    /\ FacEnvCount = 6
    /\ fac_config.docker_options # None
    /\ fac_config.docker_options[1].volumes # None
    /\ Len(fac_config.docker_options[1].volumes) = 2
    /\ fac_config.docker_options[1].extra_args # None
    /\ fac_args[Len(fac_args)] = DEFAULT_DOCKER_IMAGE

\* ========================================================================
\* Claims about ResultsDisplay.display_summary (checked under SpecSum)
\* ========================================================================
\* C17 as stated: display_summary completes without raising for every list
\* of records, the empty list included, and reports total = number of
\* records, successful = number with is_complete, failed = number with
\* has_error, listing exactly the URLs of the failed records.
C17_SummaryNeverRaises ==
    /\ sum_pc # "raised"
    /\ sum_pc = "returned" =>
          LET idx == 1..Len(sum_list)
              failedIdx == {i \in idx : sum_list[i].error # None}
          IN  /\ sum_out[2].total = Len(sum_list)
              /\ sum_out[2].successful =
                    Cardinality({i \in idx : is_complete(sum_list[i])})
              /\ sum_out[2].failed = Cardinality(failedIdx)
              /\ failedIdx = {} => Len(sum_out) = 2
              /\ failedIdx # {} =>
                    /\ Len(sum_out) = 3
                    /\ Len(sum_out[3].urls) = Cardinality(failedIdx)
                    /\ {sum_out[3].urls[k] : k \in DOMAIN sum_out[3].urls} =
                          {sum_list[i].repo_url : i \in failedIdx}

\* The number of times a destination occurs in the output of one log call
RECURSIVE DestCount(_, _)
DestCount(emitted, dest) ==
    IF emitted = <<>> THEN 0
    ELSE (IF Head(emitted) = dest THEN 1 ELSE 0)
         + DestCount(Tail(emitted), dest)

\* The log file of the package logger
PackageFile == <<"file", PackageName>>

\* The last step was a call of the given level on the package logger
PackageLogStep(level) ==
    /\ lg_op.op = "log"
    /\ lg_op.name = PackageName
    /\ lg_op.level = level

\* The destinations of the handlers now attached to the package logger
PackageHandlerDests ==
    {HandlerDest(lg_handlers[lg_loggers[PackageName].handlers[i]]) :
        i \in DOMAIN lg_loggers[PackageName].handlers}

\* A set_log_level step with a known level name keeps every logger's handler
\* list and every handler object, and gives the package logger and each of
\* its handlers the new level
SetLogLevelInPlace ==
    (lg_op'.op = "set_log_level" /\ lg_error' = None /\ lg_package # None)
    => /\ \A n \in LoggerNames :
             /\ lg_loggers'[n].handlers = lg_loggers[n].handlers
             /\ lg_loggers'[n].propagate = lg_loggers[n].propagate
             /\ n # PackageName => lg_loggers'[n].level = lg_loggers[n].level
       /\ DOMAIN lg_handlers' = DOMAIN lg_handlers
       /\ \A h \in DOMAIN lg_handlers :
             /\ lg_handlers'[h].kind = lg_handlers[h].kind
             /\ lg_handlers'[h].file = lg_handlers[h].file
       /\ lg_loggers'[PackageName].level = LevelNo(lg_op'.level)
       /\ \A i \in DOMAIN lg_loggers[PackageName].handlers :
             lg_handlers'[lg_loggers[PackageName].handlers[i]].level =
                 LevelNo(lg_op'.level)

\* C18: while the package logger is configured at INFO a DEBUG call on it
\* writes nothing to the package log file and an INFO call writes to it when
\* a file handler is attached; once set_log_level('DEBUG') has run and the
\* package logger was not configured anew, a DEBUG call reaches every handler
\* attached to the package logger; set_log_level changes levels in place and
\* replaces, adds or removes no handler.
C18_SetLogLevelInPlace ==
    /\ [](/\ (lg_pkg_mode.level = "INFO" /\ PackageLogStep("DEBUG"))
              => DestCount(lg_emitted, PackageFile) = 0
          /\ (lg_pkg_mode.level = "INFO" /\ PackageLogStep("INFO")
                 /\ PackageFile \in PackageHandlerDests)
              => DestCount(lg_emitted, PackageFile) = 1
          /\ (lg_pkg_mode = [level |-> "DEBUG", via |-> "set_log_level"]
                 /\ PackageLogStep("DEBUG"))
              => \A d \in PackageHandlerDests : DestCount(lg_emitted, d) = 1)
    /\ [][SetLogLevelInPlace]_vars

\* A DEBUG call after set_log_level('DEBUG') was written to the package file
C18_Witness ==
    /\ lg_pkg_mode = [level |-> "DEBUG", via |-> "set_log_level"]
    /\ PackageLogStep("DEBUG")
    /\ DestCount(lg_emitted, PackageFile) = 1

\* The number of handlers of one kind attached to a logger
HandlerKindCount(name, kind) ==
    Cardinality({i \in DOMAIN lg_loggers[name].handlers :
                    lg_handlers[lg_loggers[name].handlers[i]].kind = kind})

\* The destinations a log call can reach
LogDests ==
    {<<"stderr">>} \cup {<<"file", n>> : n \in LoggerNames}

\* C20: a logger that was configured, however many times, has one console
\* handler iff the last configuration enables the console, one file handler
\* on its own file iff it enables the file, no other handler, and propagation
\* disabled; one log call emits at most once per destination.
C20_HandlersOfLastConfiguration ==
    /\ \A n \in LoggerNames :
          lg_lastcfg[n] # None
          => /\ lg_loggers[n].propagate = FALSE
             /\ HandlerKindCount(n, "console") =
                   (IF lg_lastcfg[n][1].enable_console THEN 1 ELSE 0)
             /\ HandlerKindCount(n, "file") =
                   (IF lg_lastcfg[n][1].enable_file THEN 1 ELSE 0)
             /\ Len(lg_loggers[n].handlers) =
                   HandlerKindCount(n, "console") + HandlerKindCount(n, "file")
             /\ \A i \in DOMAIN lg_loggers[n].handlers :
                   lg_handlers[lg_loggers[n].handlers[i]].file = n
    /\ lg_op.op = "log"
       => \A d \in LogDests : DestCount(lg_emitted, d) <= 1

\* The package logger was constructed a second time and a call on it was
\* emitted once to the console and once to its file
C20_Witness ==
    /\ Len(lg_slogs) >= 2
    /\ lg_slogs[2].name = PackageName
    /\ lg_op.op = "log"
    /\ lg_op.name = PackageName
    /\ DestCount(lg_emitted, <<"stderr">>) = 1
    /\ DestCount(lg_emitted, PackageFile) = 1

\* The value the open scopes give a key: that of the innermost scope naming it
RECURSIVE ScopedValue(_, _)
ScopedValue(scopes, k) ==
    IF scopes = <<>> THEN None
    ELSE IF k \in DictKeys(Last(scopes)) THEN Some(DictGet(Last(scopes), k))
    ELSE ScopedValue(SubSeq(scopes, 1, Len(scopes) - 1), k)

\* The value a message must show for a key: the keyword of the call, else the
\* value of the open scopes
ExpectedValue(scopes, kwargs, k) ==
    IF k \in DictKeys(kwargs) THEN Some(DictGet(kwargs, k))
    ELSE ScopedValue(scopes, k)

\* The values shown for a key by the key=value tokens of a message text
TokenValues(text, k) ==
    {text[i + 2] : i \in {j \in 1..(Len(text) - 2) :
                             text[j] = k /\ text[j + 1] = "="}}

\* The number of key=value tokens of a message text
TokenCount(text) ==
    Cardinality({j \in 1..(Len(text) - 2) :
                    text[j] \in ContextKeys /\ text[j + 1] = "="})

\* C19: in one thread, with scopes nested in any way, the ambient context is
\* always the maps of the open scopes laid over one another, inner over
\* outer, so that leaving a scope (normally or by an exception) restores the
\* map in force when it was entered; a message shows for each key exactly the
\* value of the call's keyword, else of the innermost open scope naming the
\* key, and no token for a key no open scope and no keyword names.
C19_ContextScopes ==
    /\ DictKeys(cx_ctx) = {k \in ContextKeys : ScopedValue(cx_scopes, k) # None}
    /\ Len(cx_ctx) = Cardinality(DictKeys(cx_ctx))
    /\ \A k \in DictKeys(cx_ctx) :
          Some(DictGet(cx_ctx, k)) = ScopedValue(cx_scopes, k)
    /\ cx_scopes = <<>> => cx_ctx = <<>>
    /\ cx_op.op = "log"
       => /\ cx_out[1][1] = "m"
          /\ \A k \in ContextKeys :
                TokenValues(cx_out[1], k) =
                    {ExpectedValue(cx_scopes, cx_op.context, k)[i] :
                        i \in DOMAIN ExpectedValue(cx_scopes, cx_op.context, k)}
          /\ TokenCount(cx_out[1]) =
                Cardinality({k \in ContextKeys :
                    ExpectedValue(cx_scopes, cx_op.context, k) # None})

\* A message without keywords logged after the outermost scope, which had
\* set a key, was left by an exception: it shows no key
C19_Witness ==
    /\ cx_op.op = "log"
    /\ cx_op.context = <<>>
    /\ cx_scopes = <<>>
    /\ cx_exit = "exception"
    /\ cx_out = Some(<<"m">>)

\* A message logged inside two nested scopes, the inner one overriding the
\* outer one's value of a key
C19_WitnessNested ==
    /\ cx_op.op = "log"
    /\ Len(cx_scopes) = 2
    /\ cx_scopes[1] = << <<"request_id", "a">>, <<"user", "a">> >>
    /\ cx_scopes[2] = << <<"request_id", "b">> >>
    /\ cx_op.context = <<>>
    /\ cx_out = Some(<<"m", " ", "request_id", "=", "b", " ", "user", "=", "a">>)

\* C21: whatever text the agent returns, analyze_repository returns a
\* DocumentationAnalysis and raises nothing: the parsed record when the brace
\* span, or else the whole text, is a JSON object that satisfies the schema,
\* and otherwise the placeholder with the failure reason in business_value.
C21_AlwaysReturnsRecord ==
    (doc_pc \in {"returned", "raised"} /\ doc_via = "single"
        /\ ~doc_agent.raises)
    => /\ doc_pc = "returned"
       /\ doc_error = None
       /\ doc_result # None
       /\ doc_result[1].kind \in {"parsed", "placeholder"}
       /\ doc_result[1].kind = "placeholder"
          => doc_result[1].business_value[1] = "Repository analysis failed: "

\* The same for every response that is not a JSON value other than an object
C21_ReturnsRecordUnlessJsonNonObject ==
    (doc_pc \in {"returned", "raised"} /\ doc_via = "single"
        /\ ~doc_agent.raises)
    => \/ /\ doc_pc = "returned"
          /\ doc_error = None
          /\ doc_result # None
          /\ doc_result[1].kind \in {"parsed", "placeholder"}
       \/ /\ BraceSpan(doc_agent.text) = <<>>
          /\ IsJson(doc_agent.text)
          /\ doc_pc = "raised"
          /\ doc_error = Some("TypeError")

\* The text has a line with exactly this label (case folded)
HasLabel(text, pattern) ==
    \E i \in DOMAIN text :
        /\ Len(text[i].label) = Len(pattern)
        /\ LabelMatches(pattern, text[i].label)

\* C22: after the free-text parser returned, every field whose own label
\* line is absent from the text has its default, whatever other label lines
\* the text has.
C22_AbsentLabelKeepsDefault ==
    ps_pc = "returned"
    => LET t == ps_result[1].technology_stack
           q == ps_result[1].code_quality
       IN  /\ ~HasLabel(ps_text, <<"Tools">>) => t.tools = <<>>
           /\ ~HasLabel(ps_text, <<"Frameworks">>) => t.frameworks = <<>>
           /\ ~HasLabel(ps_text, <<"Deployment", "Tools">>)
                 => t.deployment_tools = <<>>
           /\ ~HasLabel(ps_text, <<"Testing", "Frameworks">>)
                 => t.testing_frameworks = <<>>
           /\ ~HasLabel(ps_text, <<"Languages">>) => t.languages = <<>>
           /\ ~HasLabel(ps_text, <<"Databases">>) => t.databases = <<>>
           /\ ~HasLabel(ps_text, <<"Primary", "Language">>)
                 => t.primary_language = None
           /\ ~HasLabel(ps_text, <<"Has", "Tests">>) => q.has_tests = FALSE
           /\ ~HasLabel(ps_text, <<"Has", "Linting">>) => q.has_linting = FALSE
           /\ ~HasLabel(ps_text, <<"Level">>)
                 => ps_result[1].project_complexity = None

\* The text has the line 'Has Tests: Yes'
HasTestsYesLine ==
    \E i \in DOMAIN ps_text :
        ps_text[i] = [label |-> <<"Has", "Tests">>, value |-> "Yes"]

\* The text has the line 'Score: 7'
HasScore7Line ==
    \E i \in DOMAIN ps_text :
        ps_text[i] = [label |-> <<"Score">>, value |-> "7"]

\* The parser returned (it has no path that raises) and has_linting is false
\* when no 'Has Linting:' label is in the text
LintingDefault ==
    ps_pc = "returned"
    => /\ ps_result # None
       /\ ~HasLabel(ps_text, <<"Has", "Linting">>)
             => ps_result[1].code_quality.has_linting = FALSE

GetLoggerReturned ==
    /\ lg_op'.op = "get_logger"
    /\ lg_error' = None
    /\ Len(lg_slogs') = Len(lg_slogs) + 1

\* C26: get_logger for the package name or a dotted child returns a logger on
\* the package logger's configuration object and leaves the level and the
\* handlers of the package logger's underlying logger as they were; for any
\* other name it returns a logger on a new default configuration.
C26_GetLoggerLeavesPackageLogger ==
    [][GetLoggerReturned
       => LET new == lg_slogs'[Len(lg_slogs')]
          IN  /\ new.name = lg_op'.name
              /\ IsPackageLoggerName(new.name)
                 => /\ new.config = lg_slogs[lg_package[1]].config
                    /\ lg_configs' = lg_configs
                    /\ lg_loggers'[PackageName] = lg_loggers[PackageName]
              /\ ~IsPackageLoggerName(new.name)
                 => /\ new.config = Len(lg_configs) + 1
                    /\ lg_configs'[new.config] = DefaultLoggingConfig
                    /\ lg_loggers'[PackageName] = lg_loggers[PackageName]]_vars

\* A logger object of this name is on the package logger's configuration
\* object: it is the package logger or came from get_logger
ObtainedThroughGetLogger(name) ==
    \E sid \in DOMAIN lg_slogs :
        /\ lg_slogs[sid].name = name
        /\ lg_slogs[sid].config = lg_slogs[lg_package[1]].config

\* C27: once set_log_level(L) has run, a call on the package logger or on a
\* dotted child obtained through get_logger is emitted exactly when its level
\* is at least L.
C27_SetLogLevelReachesChildren ==
    (/\ lg_op.op = "log"
     /\ lg_pkg_mode.via = "set_log_level"
     /\ IsPackageLoggerName(lg_op.name)
     /\ ObtainedThroughGetLogger(lg_op.name)
     /\ lg_loggers[lg_op.name].handlers # <<>>)
    => ((lg_emitted # <<>>)
        <=> (LevelNo(lg_op.level) >= LevelNo(lg_pkg_mode.level)))

\* The same holds of calls on the package logger itself
C27_SetLogLevelReachesPackageLogger ==
    (/\ lg_op.op = "log"
     /\ lg_pkg_mode.via = "set_log_level"
     /\ lg_op.name = PackageName
     /\ lg_loggers[lg_op.name].handlers # <<>>)
    => ((lg_emitted # <<>>)
        <=> (LevelNo(lg_op.level) >= LevelNo(lg_pkg_mode.level)))

\* C28: with several threads on one logger, under any interleaving, every
\* log call is written, a message shows exactly the keys of the scopes the
\* logging thread is inside, and once every scope has exited the shared
\* context is empty.
C28_ThreadsDoNotPollute ==
    /\ th_written = th_calls
    /\ th_op.op = "log"
       => /\ \A k \in ContextKeys :
                TokenValues(th_op.text, k) =
                    {ScopedValue(th_scopes[th_op.thread], k)[i] :
                        i \in DOMAIN ScopedValue(th_scopes[th_op.thread], k)}
          /\ TokenCount(th_op.text) =
                Cardinality({k \in ContextKeys :
                    ScopedValue(th_scopes[th_op.thread], k) # None})
    /\ (\A t \in Threads : th_scopes[t] = <<>>) => th_ctx = <<>>

\* No record is lost, whatever the interleaving
C28_NoMessageLost == th_written = th_calls

\* C29: while a run is in progress the sessions it has used stay open,
\* whatever another run on the same agent does when it finishes.
C29_RunKeepsItsSessions ==
    \A t \in Runs : agent_pc[t] = "running" => agent_used[t] \subseteq sessions

\* C30: after any update_config calls the reasoning loop is bound to the
\* agent's client and get_config_file() names the file of that client; a call
\* that failed re-raised its error and left client, config_file and the
\* reasoning loop as they were before it.
C30_UpdateConfigAllOrNothing ==
    gh_pc = "ready"
    => /\ gh.agent.client = gh.client
       /\ get_config_file = gh_clients[gh.client].config
       /\ (gh_last # None /\ gh_last[1].op = "update_config" /\ ~gh_last[1].ok)
          => /\ gh_error # None
             /\ gh.client = gh_last[1].before.client
             /\ gh.config_file = gh_last[1].before.config_file
             /\ gh.agent = gh_last[1].before.agent

\* The same for the calls that fail while closing the sessions or loading
\* the file, before self.client is assigned
C30_EarlyFailureKeepsState ==
    (gh_pc = "ready" /\ gh_last # None /\ gh_last[1].op = "update_config"
        /\ ~gh_last[1].ok /\ gh_last[1].stage # "rebuild")
    => /\ gh_error # None
       /\ gh.client = gh_last[1].before.client
       /\ gh.config_file = gh_last[1].before.config_file
       /\ gh.agent = gh_last[1].before.agent

\* ========================================================================
\* Claims about GitIngestAnalyzer.analyze_repository (checked under SpecIngest)
\* ========================================================================
IngLastFailure == ing_failures[Len(ing_failures)]

StepRank(pc) ==
    CASE pc = "start" -> 0
      [] pc = "open" -> 1
      [] pc = "list_tools" -> 2
      [] pc = "structure" -> 3
      [] pc = "files" -> 4
      [] pc = "analysis" -> 5
      [] pc = "parse" -> 6
      [] pc = "close" -> 7
      [] OTHER -> 8

\* What is stored while the call is at a step: nothing before the structure
\* step has run; at the file step the structure iff its tool is offered; at
\* the analysis step also the files iff their tool is offered; the analysis
\* output only from the parse step on
StoredAtStep ==
    /\ ing_pc \in {"open", "list_tools", "structure"}
       => /\ results.structure = None /\ results.files = None
          /\ results.tools_used = <<>> /\ analysis_output = None
    /\ ing_pc \in {"files", "analysis"}
       => /\ (results.structure # None) = (ToolStructure \in tool_names)
          /\ analysis_output = None
    /\ ing_pc = "files" => results.files = None
    /\ ing_pc = "analysis"
       => (results.files # None) = (ToolFiles \in tool_names)
    /\ ing_pc \in {"parse", "close"} => analysis_output # None

\* C24: the steps of one call run in the order open, list tools, structure,
\* files, analysis, parse, each after the one before finished or was skipped;
\* tools_used is a sublist of [git_directory_structure,
\* git_read_important_files], a tool is in it only when its result is stored,
\* and the nested models are set only after the final analysis ran.
C24_StepsInOrder ==
    /\ [](ing_pc # "start"
          => /\ results.tools_used \in
                   {<<>>, <<ToolStructure>>, <<ToolFiles>>,
                    <<ToolStructure, ToolFiles>>}
             /\ (\E i \in DOMAIN results.tools_used :
                    results.tools_used[i] = ToolStructure)
                => results.structure # None
             /\ (\E i \in DOMAIN results.tools_used :
                    results.tools_used[i] = ToolFiles)
                => results.files # None
             /\ (results.technology_stack # None
                    \/ results.project_complexity # None
                    \/ results.code_quality # None)
                => analysis_output # None
             /\ StoredAtStep)
    /\ [][StepRank(ing_pc') >= StepRank(ing_pc)
          /\ (StepRank(ing_pc') < 8
                 => StepRank(ing_pc') <= StepRank(ing_pc) + 1)]_vars

\* Both tools were used, then the analysis ran and the call returned
C24_Witness ==
    /\ ing_pc = "returned"
    /\ results.tools_used = <<ToolStructure, ToolFiles>>
    /\ results.structure # None /\ results.files # None
    /\ results.technology_stack # None
    /\ results.error = None

\* An extraction step of the parser raised during this call
ParseFailed ==
    \E i \in DOMAIN ing_failures : ing_failures[i][1] = "parse"

\* The three fallback values are in the record
HasFallbackValues ==
    /\ results.technology_stack = Some(TechnologyStack(None))
    /\ results.project_complexity = Some(ProjectComplexity("Unknown", None))
    /\ results.code_quality = Some(CodeQualityMetrics(FALSE))

\* C25 as stated: when an extraction step of the parser raised, the record
\* analyze_repository returns has the three fallback values, error unset and
\* has_error false.
C25_ParserFailureNeverAnError ==
    (ing_pc = "returned" /\ ParseFailed)
    => /\ HasFallbackValues
       /\ results.error = None
       /\ ~has_error(results)

\* C25 amended: the parser returns with the three fallback values and error
\* unset, and the record analyze_repository returns has them and has_error
\* false unless leaving the session block failed afterwards.
C25_ParserFailureAbsorbed ==
    /\ (ing_pc = "close" /\ ParseFailed)
       => /\ HasFallbackValues
          /\ results.error = None
          /\ ~has_error(results)
    /\ (ing_pc = "returned" /\ ParseFailed)
       => /\ HasFallbackValues
          /\ IngLastFailure[1] = "parse"
             => (results.error = None /\ ~has_error(results))
          /\ IngLastFailure[1] # "parse"
             => (IngLastFailure[1] = "close" /\ has_error(results))

\* A score outside 1..10 made the parser fall back after it had parsed the
\* language, and the call returned without an error
C25_Witness ==
    /\ ing_pc = "returned"
    /\ ParseFailed
    /\ IngLastFailure[1] = "parse"
    /\ IngLastFailure[3].technology_stack = Some(TechnologyStack(Some("Python")))
    /\ HasFallbackValues
    /\ ~has_error(results)

CliOff ==
    /\ cli = None /\ repo_urls = None /\ test_connection = None
    /\ cli_pc = None /\ url_idx = None /\ project = None
    /\ results_list = None /\ appended_by = None /\ disk = None
    /\ exit_status = None /\ summary_total = None
    /\ connection_tests = None /\ analyzed = None /\ handled = None
    /\ interrupted = None

AgentOff ==
    /\ sessions = None /\ agent_pc = None /\ agent_kind = None
    /\ agent_steps = None /\ agent_pending = None /\ agent_used = None
    /\ runs_started = None

IngestOff ==
    /\ ing_variant = None /\ ing_url = None /\ ing_pc = None
    /\ results = None /\ tool_names = None /\ analysis_output = None
    /\ ing_failures = None

McpOff ==
    /\ mcp_url = None /\ mcp_pc = None /\ mcp_results = None
    /\ mcp_data = None /\ mcp_failed = None

GhOff ==
    /\ gh_pc = None /\ gh_env = None /\ gh_args = None /\ gh = None
    /\ gh_clients = None /\ gh_update = None /\ gh_last = None
    /\ gh_error = None /\ gh_reloads = None

RecOff == rec_pc = None /\ rec = None /\ rec_fresh = None /\ rec_derived = None

UrlOff == fu_pc = None /\ fu_url = None /\ fu_result = None

FacOff == fac_pc = None /\ fac_config = None /\ fac_env = None /\ fac_args = None

SumOff ==
    sum_pc = None /\ sum_list = None /\ sum_out = None /\ sum_error = None

LogOff ==
    /\ lg_loggers = None /\ lg_handlers = None /\ lg_configs = None
    /\ lg_slogs = None /\ lg_package = None /\ lg_op = None
    /\ lg_emitted = None /\ lg_pkg_mode = None /\ lg_lastcfg = None
    /\ lg_error = None

CtxOff ==
    cx_ctx = None /\ cx_saved = None /\ cx_scopes = None /\ cx_out = None
    /\ cx_op = None /\ cx_exit = None

DocOff ==
    doc_pc = None /\ doc_via = None /\ doc_agent = None /\ doc_result = None
    /\ doc_error = None

ParseOff ==
    ps_pc = None /\ ps_text = None /\ ps_result = None

ThrOff ==
    th_ctx = None /\ th_pc = None /\ th_orig = None /\ th_scopes = None
    /\ th_calls = None /\ th_written = None /\ th_op = None

InitCli ==
    CliInit
    /\ AgentOff /\ IngestOff /\ McpOff /\ GhOff
    /\ RecOff /\ UrlOff /\ FacOff /\ SumOff
    /\ LogOff /\ CtxOff /\ DocOff /\ ParseOff
    /\ ThrOff

InitAgent ==
    AgentInit
    /\ CliOff /\ IngestOff /\ McpOff /\ GhOff
    /\ RecOff /\ UrlOff /\ FacOff /\ SumOff
    /\ LogOff /\ CtxOff /\ DocOff /\ ParseOff
    /\ ThrOff

InitIngest ==
    IngInit
    /\ CliOff /\ AgentOff /\ McpOff /\ GhOff
    /\ RecOff /\ UrlOff /\ FacOff /\ SumOff
    /\ LogOff /\ CtxOff /\ DocOff /\ ParseOff
    /\ ThrOff

InitMcp ==
    McpInit
    /\ CliOff /\ AgentOff /\ IngestOff /\ GhOff
    /\ RecOff /\ UrlOff /\ FacOff /\ SumOff
    /\ LogOff /\ CtxOff /\ DocOff /\ ParseOff
    /\ ThrOff

InitGh ==
    GhInit
    /\ CliOff /\ AgentOff /\ IngestOff /\ McpOff
    /\ RecOff /\ UrlOff /\ FacOff /\ SumOff
    /\ LogOff /\ CtxOff /\ DocOff /\ ParseOff
    /\ ThrOff

InitRec ==
    RecInit
    /\ CliOff /\ AgentOff /\ IngestOff /\ McpOff
    /\ GhOff /\ UrlOff /\ FacOff /\ SumOff
    /\ LogOff /\ CtxOff /\ DocOff /\ ParseOff
    /\ ThrOff

InitUrl ==
    FromUrlInit
    /\ CliOff /\ AgentOff /\ IngestOff /\ McpOff
    /\ GhOff /\ RecOff /\ FacOff /\ SumOff
    /\ LogOff /\ CtxOff /\ DocOff /\ ParseOff
    /\ ThrOff

InitFac ==
    FacInit
    /\ CliOff /\ AgentOff /\ IngestOff /\ McpOff
    /\ GhOff /\ RecOff /\ UrlOff /\ SumOff
    /\ LogOff /\ CtxOff /\ DocOff /\ ParseOff
    /\ ThrOff

InitSum ==
    SumInit
    /\ CliOff /\ AgentOff /\ IngestOff /\ McpOff
    /\ GhOff /\ RecOff /\ UrlOff /\ FacOff
    /\ LogOff /\ CtxOff /\ DocOff /\ ParseOff
    /\ ThrOff

InitLog ==
    LogInit
    /\ CliOff /\ AgentOff /\ IngestOff /\ McpOff
    /\ GhOff /\ RecOff /\ UrlOff /\ FacOff
    /\ SumOff /\ CtxOff /\ DocOff /\ ParseOff
    /\ ThrOff

InitCtx ==
    CtxInit
    /\ CliOff /\ AgentOff /\ IngestOff /\ McpOff
    /\ GhOff /\ RecOff /\ UrlOff /\ FacOff
    /\ SumOff /\ LogOff /\ DocOff /\ ParseOff
    /\ ThrOff

InitDoc ==
    DocInit
    /\ CliOff /\ AgentOff /\ IngestOff /\ McpOff
    /\ GhOff /\ RecOff /\ UrlOff /\ FacOff
    /\ SumOff /\ LogOff /\ CtxOff /\ ParseOff
    /\ ThrOff

InitParse ==
    ParseInit
    /\ CliOff /\ AgentOff /\ IngestOff /\ McpOff
    /\ GhOff /\ RecOff /\ UrlOff /\ FacOff
    /\ SumOff /\ LogOff /\ CtxOff /\ DocOff
    /\ ThrOff

InitThr ==
    ThrInit
    /\ CliOff /\ AgentOff /\ IngestOff /\ McpOff
    /\ GhOff /\ RecOff /\ UrlOff /\ FacOff
    /\ SumOff /\ LogOff /\ CtxOff /\ DocOff
    /\ ParseOff

SpecCli == InitCli /\ [][CliNext]_vars

SpecAgent == InitAgent /\ [][AgentNext]_vars

SpecIngest == InitIngest /\ [][IngNext]_vars

SpecMcp == InitMcp /\ [][McpNext]_vars

SpecGh == InitGh /\ [][GhNext]_vars

SpecRec == InitRec /\ [][RecNext]_vars

SpecUrl == InitUrl /\ [][FromUrlNext]_vars

SpecFac == InitFac /\ [][FacNext]_vars

SpecSum == InitSum /\ [][SumNext]_vars

SpecLog == InitLog /\ [][LogNext]_vars

SpecCtx == InitCtx /\ [][CtxNext]_vars

SpecDoc == InitDoc /\ [][DocNext]_vars

SpecParse == InitParse /\ [][ParseNext]_vars

SpecThr == InitThr /\ [][ThrNext]_vars

====
